---- MODULE Spec2Model ----
(***************************************************************************)
(* Model of the schema transformation pipeline of the WebExtension schema  *)
(* generator: processImports / getNestedIdOrNamespace, processSchema with  *)
(* its search mode and its compat data functions (modules/process.mjs),    *)
(* and mergeAnnotations (get_thunderbird_schema_files.js).                 *)
(*                                                                         *)
(* JSON values are tagged records.  Objects keep their keys in insertion   *)
(* order (a sequence of key/value pairs), as JavaScript objects do.        *)
(***************************************************************************)
EXTENDS Integers, Sequences, FiniteSets, TLC

VARIABLES
  schema,   \* the corpus handed to processImports (parameter `schema`)
  value,    \* the value handed to the operation under study (parameter `value`)
  mv,       \* config.manifest_version
  out,      \* the value the operation returned
  out2,     \* the value a second processSchema pass over `out` returned
  pc,       \* position of the caller: "start", "done", "again", "loop"
  schemaInfo,  \* parameter `schemaInfo` of processSchema (owner, version_added)
  searchPath,  \* parameter `searchPath`: the address looked for
  remote,   \* what the program reads from outside: the browser compat data,
            \* the revision log and the files of the revisions, the
            \* reachable documentation pages, the readable include files
  revIdx,   \* loop variable `i` of extractThunderbirdCompatData
  tested    \* the revisions extractThunderbirdCompatData has tested so far

vars == <<schema, value, mv, out, out2, pc, schemaInfo, searchPath, remote,
          revIdx, tested>>

-----------------------------------------------------------------------------
(* JSON values *)

Str(s) == [t |-> "str", s |-> s]
Num(n) == [t |-> "num", n |-> n]
Arr(e) == [t |-> "arr", el |-> e]
Obj(p) == [t |-> "obj", kv |-> p]
KV(k, v) == [k |-> k, v |-> v]
\* JavaScript's `undefined`: the result of reading a missing property.
Undefined == [t |-> "undef"]
\* true and false
Bool(b) == [t |-> "bool", b |-> b]

\* typeof x === 'object' (null is not part of the modelled inputs).
IsObject(x) == x.t \in {"obj", "arr"}
IsArray(x) == x.t = "arr"

\* JavaScript truthiness of a value, as `!x` and `if (x)` test it.
Truthy(x) ==
  CASE x.t = "str" -> x.s # ""
    [] x.t = "num" -> x.n # 0
    [] x.t = "undef" -> FALSE
    [] x.t = "bool" -> x.b
    [] OTHER -> TRUE

\* Object.keys(o) of an object, in insertion order.
Keys(o) == [i \in 1..Len(o.kv) |-> o.kv[i].k]
KeySet(o) == {o.kv[i].k : i \in 1..Len(o.kv)}
\* Object.hasOwn(o, k)
Has(o, k) == o.t = "obj" /\ k \in KeySet(o)
\* o[k]: the property value, undefined when o has no such own property (also
\* when o is an array or a scalar: the keys used are no array methods).
Get(o, k) ==
  IF Has(o, k)
  THEN o.kv[CHOOSE i \in 1..Len(o.kv) : o.kv[i].k = k].v
  ELSE Undefined
\* o[k] = v: an existing key keeps its position, a new key is appended.
Put(o, k, v) ==
  IF Has(o, k)
  THEN Obj([i \in 1..Len(o.kv) |-> IF o.kv[i].k = k THEN KV(k, v) ELSE o.kv[i]])
  ELSE Obj(Append(o.kv, KV(k, v)))
\* delete o[k]
Del(o, k) == Obj(SelectSeq(o.kv, LAMBDA p : p.k # k))

Min(S) == CHOOSE x \in S : \A y \in S : x <= y


-----------------------------------------------------------------------------
(* processImports, called as the tests call it: `value` is a tree of its own,
   not a part of the corpus `schema`. *)

\* value.$import.split('.').pop(): the text after the last dot.  The import
\* references of the modelled inputs are "A", "B", "ns.A", "ns.B",
\* "ManifestBase" and "Missing".
importId(ref) ==
  CASE ref = "ns.A" -> "A"
    [] ref = "ns.B" -> "B"
    [] OTHER -> ref

\* The first element of a sequence of lookup results that is not undefined.
FirstDefined(hits) ==
  LET idx == {i \in DOMAIN hits : hits[i] # Undefined}
  IN IF idx = {} THEN Undefined ELSE hits[Min(idx)]

RECURSIVE getNestedIdOrNamespace(_, _)
getNestedIdOrNamespace(v, searchString) ==
  IF ~IsObject(v) THEN Undefined
  ELSE IF IsArray(v)
    THEN FirstDefined([i \in 1..Len(v.el) |->
                         getNestedIdOrNamespace(v.el[i], searchString)])
  ELSE IF Get(v, "namespace") = Str(searchString) THEN v
  ELSE IF Get(v, "id") = Str(searchString) THEN v
  ELSE FirstDefined([i \in 1..Len(v.kv) |->
                       getNestedIdOrNamespace(v.kv[i].v, searchString)])

\* The property names `for (const n in from)` visits on an array: "0", "1", ...
IdxKey(i) ==
  CASE i = 1 -> "0" [] i = 2 -> "1" [] i = 3 -> "2" [] i = 4 -> "3" [] OTHER -> "4"

\* The entries `for (const n in from)` visits, as key/value pairs.  An array
\* is visited by index; the key is then the 1-based position.
Entries(from) ==
  IF IsArray(from)
  THEN [i \in 1..Len(from.el) |-> KV(i, from.el[i])]
  ELSE from.kv

RECURSIVE mergeObjects(_, _)
\* One round of the loop body of mergeObjects for entry e of `from`.
\*   to = object, from = object : named keys
\*   to = array,  from = array  : indices; an index past the end appends
\*   to = object, from = array  : the indices become the keys "0", "1", ...
\*   to = array,  from = object : the named keys become expando properties of
\*                                the array, which are no part of its JSON value
mergeEntry(to, from, e) ==
  IF IsArray(to)
  THEN IF IsArray(from)
       THEN LET tn == IF e.k <= Len(to.el) THEN to.el[e.k] ELSE Undefined
                set(x) == IF e.k <= Len(to.el)
                          THEN Arr([to.el EXCEPT ![e.k] = x])
                          ELSE Arr(Append(to.el, x))
            IN IF ~IsObject(tn) THEN set(e.v)
               ELSE IF IsObject(e.v) THEN set(mergeObjects(tn, e.v))
               ELSE to
       ELSE to
  ELSE LET n == IF IsArray(from) THEN IdxKey(e.k) ELSE e.k
           tn == Get(to, n)
       IN IF ~IsObject(tn) THEN Put(to, n, e.v)
          ELSE IF IsObject(e.v) THEN Put(to, n, mergeObjects(tn, e.v))
          ELSE to

RECURSIVE mergeFrom(_, _, _)
mergeFrom(to, from, i) ==
  IF i > Len(Entries(from)) THEN to
  ELSE mergeFrom(mergeEntry(to, from, Entries(from)[i]), from, i + 1)

mergeObjects(to, from) == mergeFrom(to, from, 1)

\* The clone of the located node (JSON.stringify, then parse: the same JSON
\* value) without its manifest limits, namespace and id.
stripImported(imported) ==
  Del(Del(Del(Del(imported, "min_manifest_version"), "max_manifest_version"),
          "namespace"), "id")

RECURSIVE processImports(_, _)
\* processImportsDefault with a fault: the node is returned as it is, its
\* property values are not processed.
processImportsDefaultShallow(sch, v) == v

\* The default branch: a new object with every property value processed.
processImportsDefault(sch, v) ==
  Obj([i \in 1..Len(v.kv) |-> KV(v.kv[i].k, processImports(sch, v.kv[i].v))])

\* The branch taken for a node that has $import (v is the node after
\* `delete value.$import`, id the text after the last dot).
processImportsRef(sch, v, id) ==
  LET imported == IF id # "ManifestBase"
                  THEN getNestedIdOrNamespace(sch, id)
                  ELSE Undefined
  IN IF id # "ManifestBase" /\ Truthy(imported)
     THEN mergeObjects(v, stripImported(imported))
     ELSE processImportsDefault(sch, v)

processImports(sch, v) ==
  IF ~IsObject(v) THEN v
  ELSE IF IsArray(v)
    THEN Arr([i \in 1..Len(v.el) |-> processImports(sch, v.el[i])])
  ELSE IF Has(v, "$import")
    THEN processImportsRef(sch, Del(v, "$import"), importId(Get(v, "$import").s))
  ELSE processImportsDefault(sch, v)

-----------------------------------------------------------------------------
(* Addresses inside a JSON value, used to relate a node of the input to the
   node at the same place of the result. *)

PKey(k) == [key |-> k]
PIdx(i) == [idx |-> i]

RECURSIVE Paths(_)
Paths(v) ==
  {<<>>} \cup
  (IF v.t = "obj"
   THEN UNION {{<<PKey(v.kv[i].k)>> \o q : q \in Paths(v.kv[i].v)} :
                 i \in 1..Len(v.kv)}
   ELSE IF v.t = "arr"
   THEN UNION {{<<PIdx(i)>> \o q : q \in Paths(v.el[i])} : i \in 1..Len(v.el)}
   ELSE {})

RECURSIVE At(_, _)
At(v, p) ==
  IF p = <<>> THEN v
  ELSE IF "key" \in DOMAIN p[1]
    THEN IF Has(v, p[1].key) THEN At(Get(v, p[1].key), Tail(p)) ELSE Undefined
  ELSE IF v.t = "arr" /\ p[1].idx <= Len(v.el)
    THEN At(v.el[p[1].idx], Tail(p))
  ELSE Undefined

Prefix(p, n) == SubSeq(p, 1, n)

-----------------------------------------------------------------------------
(* Inputs of processImports *)

\* Bounds: how many optional keys the importing node and the import target
\* carry besides their fixed ones.
MaxOwnKeys == 2
MaxTargetKeys == 2

TypeOf(s) == Obj(<<KV("type", Str(s))>>)
ImportOf(ref) == Obj(<<KV("$import", Str(ref))>>)

\* Optional keys of the importing node.
OwnFeatures ==
  << KV("type", Str("own")),
     KV("id", Str("ownId")),
     KV("properties", Obj(<<KV("p", TypeOf("boolean")), KV("own", TypeOf("boolean"))>>)),
     KV("enum", Arr(<<Str("z")>>)),
     KV("child", ImportOf("B")),
     KV("lost", ImportOf("Missing")) >>

\* Optional keys of the import target A (besides id and type).
TargetFeatures ==
  << KV("min_manifest_version", Num(3)),
     KV("namespace", Str("nsA")),
     KV("properties", Obj(<<KV("p", TypeOf("string")), KV("q", ImportOf("B"))>>)),
     KV("enum", Arr(<<Str("a"), Str("b")>>)),
     KV("$import", Str("B")) >>

FeatureKeys(fs) == {fs[i].k : i \in 1..Len(fs)}
Choose(fs, max) ==
  {SelectSeq(fs, LAMBDA f : f.k \in S) :
     S \in {T \in SUBSET FeatureKeys(fs) : Cardinality(T) <= max}}

TargetsA ==
  {Obj(<<KV("id", Str("A")), KV("type", Str("object"))>> \o fs) :
     fs \in Choose(TargetFeatures, MaxTargetKeys)}
TargetsB ==
  { Obj(<<KV("id", Str("B")), KV("type", Str("string"))>>),
    Obj(<<KV("namespace", Str("B")), KV("max_manifest_version", Num(2)),
          KV("properties", Obj(<<KV("r", TypeOf("number"))>>))>>) }

Corpora ==
  {Arr(<<Obj(<<KV("namespace", Str("ns")), KV("types", Arr(<<a, b>>))>>)>>) :
     a \in TargetsA, b \in TargetsB}

ImportRefs == {"A", "ns.B", "ManifestBase", "Missing"}
ImportNodes ==
  {Obj(<<KV("$import", Str(ref))>> \o fs) :
     ref \in ImportRefs, fs \in Choose(OwnFeatures, MaxOwnKeys)}

\* The importing node on its own, as an array element next to a plain
\* element, and as a property value two levels down.
ImportInputs ==
  UNION {{n,
          Arr(<<n, Obj(<<KV("normal", Str("value"))>>)>>),
          Obj(<<KV("level1", Obj(<<KV("level2", n)>>))>>)} : n \in ImportNodes}

InitImports ==
  /\ schema \in Corpora
  /\ value \in ImportInputs
  /\ mv = 3
  /\ out = Undefined
  /\ out2 = Undefined
  /\ pc = "start"
  /\ schemaInfo = Undefined
  /\ searchPath = Undefined
  /\ remote = Undefined
  /\ revIdx = 0
  /\ tested = <<>>

\* result = processImports(schema, value)
RunImports ==
  /\ pc = "start"
  /\ out' = processImports(schema, value)
  /\ pc' = "done"
  /\ UNCHANGED <<schema, value, mv, out2, schemaInfo, searchPath, remote, revIdx, tested>>

NextImports == RunImports
SpecImports == InitImports /\ [][NextImports]_vars

-----------------------------------------------------------------------------
(* Claims about processImports, checked under SpecImports *)

\* The node the $import of n names, looked up in the corpus of the state.
TargetOf(n) == getNestedIdOrNamespace(schema, importId(Get(n, "$import").s))
HasImport(n) == Has(n, "$import")
IsManifestBase(n) == HasImport(n) /\ importId(Get(n, "$import").s) = "ManifestBase"
TargetFound(n) == HasImport(n) /\ ~IsManifestBase(n) /\ TargetOf(n) # Undefined
TargetMissing(n) == HasImport(n) /\ ~IsManifestBase(n) /\ TargetOf(n) = Undefined

\* processImports is called on the node at address p of the input: no node
\* above it was replaced by a merge result.
Visited(p) ==
  \A n \in 0..(Len(p) - 1) : ~TargetFound(At(value, Prefix(p, n)))

\* C3 (as claimed): after processImports returns, no object of the returned
\* tree has a $import key whose target exists in the corpus.
C3_NoResolvableImportLeft ==
  pc = "done" =>
    \A p \in Paths(out) :
      LET r == At(out, p)
      IN ~(HasImport(r) /\ TargetOf(r) # Undefined)

RECURSIVE MergedAsClaimed(_, _, _)
\* r is `to` with `from` merged in the way C4 describes: keys of `to` that
\* hold a scalar or an array keep their value, keys absent from `to` are
\* filled from `from`, objects on both sides are merged under the same rule.
MergedAsClaimed(to, from, r) ==
  /\ r.t = "obj"
  /\ KeySet(r) = KeySet(to) \cup KeySet(from)
  /\ \A k \in KeySet(r) :
       IF ~Has(to, k) THEN Get(r, k) = Get(from, k)
       ELSE IF Get(to, k).t = "obj" /\ Get(from, k).t = "obj"
         THEN MergedAsClaimed(Get(to, k), Get(from, k), Get(r, k))
       ELSE Get(r, k) = Get(to, k)

\* C4 (as claimed): when an import target is merged into the importing node,
\* the node's own scalar and array values are kept and the target only fills
\* absent keys.
C4_OwnKeysTakePrecedence ==
  pc = "done" =>
    \A p \in Paths(value) :
      LET n == At(value, p)
      IN (Visited(p) /\ TargetFound(n)) =>
           MergedAsClaimed(Del(n, "$import"), stripImported(TargetOf(n)), At(out, p))

\* C5 (as claimed): a node whose import target is found has, once resolved,
\* no $import key, none of the target's namespace, id or manifest limits, and
\* all of its own other keys.
C5_ResolvedNodeIsClean ==
  pc = "done" =>
    \A p \in Paths(value) :
      LET n == At(value, p)
          r == At(out, p)
      IN (Visited(p) /\ TargetFound(n)) =>
           /\ ~Has(r, "$import")
           /\ \A k \in {"namespace", "id", "min_manifest_version", "max_manifest_version"} :
                Has(r, k) => (Has(n, k) /\ Get(r, k) = Get(n, k))
           /\ (KeySet(n) \ {"$import"}) \subseteq KeySet(r)

\* C6 (as claimed): a node with $import "ManifestBase" is returned with its
\* $import and with all its other keys unchanged.
C6_ManifestBaseKept ==
  pc = "done" =>
    \A p \in Paths(value) :
      LET n == At(value, p)
          r == At(out, p)
      IN (Visited(p) /\ IsManifestBase(n)) =>
           /\ Get(r, "$import") = Get(n, "$import")
           /\ KeySet(r) = KeySet(n)

\* C7: when the target of $import is found nowhere in the corpus, the node is
\* returned without $import and without imported content (its keys are its
\* own other keys, in their order), scalar values are kept, and the imports of
\* its children are resolved: a child whose target is found carries the
\* target's keys.
C7_MissingImportIsDropped ==
  pc = "done" =>
    \A p \in Paths(value) :
      LET n == At(value, p)
          r == At(out, p)
      IN (Visited(p) /\ TargetMissing(n)) =>
           /\ r.t = "obj"
           /\ Keys(r) = Keys(Del(n, "$import"))
           /\ \A k \in KeySet(n) \ {"$import"} :
                LET c == Get(n, k)
                    rc == Get(r, k)
                IN /\ ~IsObject(c) => rc = c
                   /\ TargetFound(c) =>
                        KeySet(stripImported(TargetOf(c))) \subseteq KeySet(rc)
                   /\ TargetMissing(c) => ~Has(rc, "$import")

\* A node with a missing import target and a child whose import is resolved.
C7_Witness ==
  /\ pc = "done"
  /\ TargetMissing(value)
  /\ TargetFound(Get(value, "child"))
  /\ Has(Get(out, "child"), "type")

-----------------------------------------------------------------------------
(* Description rewriting (processSchema, case 'description' / 'deprecated') *)

\* A description is a string; the model keeps it as the sequence of the
\* pieces the regular expressions of the rewriter tell apart.
Text(toks) == [t |-> "text", toks |-> toks]
IsString(x) == x.t \in {"str", "text"}

Lit(s) == [k |-> "lit", s |-> s]                     \* plain text
Role(kind, x) == [k |-> "role", kind |-> kind, x |-> x]  \* :doc:`x` :ref:`x` :permission:`x`
Tick2(x) == [k |-> "tick2", x |-> x]                 \* ``x``
Tick1(x) == [k |-> "tick1", x |-> x]                 \* `x`
UrlPh(key, label) == [k |-> "urlph", key |-> key, label |-> label]  \* $(url:key)[label]
RelHref(href) == [k |-> "relhref", href |-> href]    \* <a href="href"> with a relative href
Dollar(kind, x) == [k |-> "dollar", kind |-> kind, x |-> x]  \* $(doc:x) $(ref:x)
Tag(name, x) == [k |-> "tag", name |-> name, x |-> x]        \* <name>x</name>
Link(url, label) == [k |-> "link", url |-> url, label |-> label]  \* <a href='url'>label</a>
AHref(url) == [k |-> "ahref", url |-> url]           \* <a href="url">

\* config.urlReplacements
UrlReplacements ==
  [key \in {"test-url", "docs-url", "fx-url", "empty-url"} |->
     CASE key = "test-url" -> "https://example.com/test"
       [] key = "docs-url" -> "https://docs.example.com"
       [] key = "fx-url" -> "https://example.com/Firefox"
       [] OTHER -> ""]

\* v.replace(/:doc:`(.*?)`/g, ...), /:ref:`(.*?)`/g, /:permission:`(.*?)`/g
rewriteRoles(toks) ==
  [i \in 1..Len(toks) |->
    LET tk == toks[i]
    IN IF tk.k = "role"
       THEN IF tk.kind = "permission" THEN Tag("permission", tk.x) ELSE Dollar(tk.kind, tk.x)
       ELSE tk]

\* const url = urlReplacements[key]; if (!url) ...: the key has a URL that
\* is not the empty string.
hasUrl(urlReplacements, key) ==
  key \in DOMAIN urlReplacements /\ urlReplacements[key] # ""

\* A variant of replaceUrlsInDescription that keeps only the label of a
\* placeholder without a URL.
replaceUrlsKeepLabel(toks, urlReplacements) ==
  [i \in 1..Len(toks) |->
    IF toks[i].k = "urlph"
    THEN IF hasUrl(urlReplacements, toks[i].key)
         THEN Link(urlReplacements[toks[i].key], toks[i].label) ELSE Lit(toks[i].label)
    ELSE toks[i]]

replaceUrlsInDescription(toks, urlReplacements) ==
  [i \in 1..Len(toks) |->
    LET tk == toks[i]
    IN IF tk.k = "relhref"
       THEN IF hasUrl(urlReplacements, tk.href)
            THEN AHref(urlReplacements[tk.href]) ELSE tk
       ELSE IF tk.k = "urlph"
       THEN IF hasUrl(urlReplacements, tk.key)
            THEN Link(urlReplacements[tk.key], tk.label) ELSE tk
       ELSE tk]

\* .replace(/``(.+?)``/g, '<val>$1</val>').replace(/`(.+?)`/g, '<val>$1</val>')
rewriteTicks(toks) ==
  [i \in 1..Len(toks) |->
    LET tk == toks[i]
    IN IF tk.k \in {"tick2", "tick1"} THEN Tag("val", tk.x) ELSE tk]

Brand(s) ==
  CASE s = "Firefox" -> "Thunderbird"
    [] s = "https://example.com/Firefox" -> "https://example.com/Thunderbird"
    [] OTHER -> s
\* .replaceAll('Firefox', 'Thunderbird'), on every piece of the text
rebrand(toks) ==
  [i \in 1..Len(toks) |->
    LET tk == toks[i]
    IN CASE tk.k = "lit" -> Lit(Brand(tk.s))
         [] tk.k = "dollar" -> Dollar(tk.kind, Brand(tk.x))
         [] tk.k = "tag" -> Tag(tk.name, Brand(tk.x))
         [] tk.k = "link" -> Link(Brand(tk.url), Brand(tk.label))
         [] tk.k = "ahref" -> AHref(Brand(tk.url))
         [] tk.k = "relhref" -> RelHref(Brand(tk.href))
         [] tk.k = "urlph" -> UrlPh(Brand(tk.key), Brand(tk.label))
         [] OTHER -> tk]

rewriteDescription(v) ==
  IF v.t = "text"
  THEN Text(rebrand(rewriteTicks(
         replaceUrlsInDescription(rewriteRoles(v.toks), UrlReplacements))))
  ELSE v

-----------------------------------------------------------------------------
(* processSchema: the steps of the walk that do not depend on the schema
   owner. *)

LimitKeys == {"min_manifest_version", "max_manifest_version"}

\* isLimitKey with a fault: only the lower limit is left out of the result.
isLimitKeyMinOnly(key) == key = "min_manifest_version"

\* case 'min_manifest_version': case 'max_manifest_version': the keys the
\* property loop does not copy into the result.
isLimitKey(key) == key \in LimitKeys

\* isInVersionRange with a fault: the limits themselves are out of range.
isInVersionRangeStrict(m, v) ==
  /\ \/ ~Truthy(Get(v, "min_manifest_version"))
     \/ Get(v, "min_manifest_version").n < m
  /\ \/ ~Truthy(Get(v, "max_manifest_version"))
     \/ Get(v, "max_manifest_version").n > m

isInVersionRange(m, v) ==
  /\ \/ ~Truthy(Get(v, "min_manifest_version"))
     \/ Get(v, "min_manifest_version").n <= m
  /\ \/ ~Truthy(Get(v, "max_manifest_version"))
     \/ Get(v, "max_manifest_version").n >= m

\* value.filter(isInVersionRange)
filterByVersion(m, els) == SelectSeq(els, LAMBDA e : isInVersionRange(m, e))

\* A path element { ref, type } and a path element { ref, type, info }: info
\* is the array element itself, read by addFirefoxCompatData.
PathElement(ref, type) == [ref |-> ref, type |-> type, info |-> Undefined]
PathElementInfo(ref, type, nfo) == [ref |-> ref, type |-> type, info |-> nfo]
LastRef(pathElements) ==
  IF Len(pathElements) = 0 THEN Undefined
  ELSE pathElements[Len(pathElements)].ref

RECURSIVE LastPresent(_, _, _)
\* The loop over ['name', 'id', 'namespace', '$extend']: every property that
\* is present replaces the path element chosen so far.
LastPresent(e, props, chosen) ==
  IF props = <<>> THEN chosen
  ELSE LastPresent(e, Tail(props),
                   IF Truthy(Get(e, Head(props)))
                   THEN PathElement(Get(e, Head(props)), Head(props))
                   ELSE chosen)

\* The path element of element i (0-based idx) of a filtered array.
arrayPathElement(pathElements, e, idx) ==
  IF LastRef(pathElements) \in {Str("choices"), Str("parameters")}
    THEN PathElementInfo(Num(idx), "idx", e)
  ELSE IF LastRef(pathElements) = Str("enum")
    THEN PathElement(e, "value")
  ELSE LastPresent(e, <<"name", "id", "namespace", "$extend">>,
                   PathElementInfo(Num(idx), "idx", e))

\* Reduce object properties with respect to the requested manifest version.
reduceByVersion(m, v) == Obj(SelectSeq(v.kv, LAMBDA p : isInVersionRange(m, p.v)))

\* Unicode code unit order of the enum values of the modelled inputs.
CodeOrder == <<"a", "b", "c", "d">>
Rank(s) == CHOOSE i \in 1..Len(CodeOrder) : CodeOrder[i] = s
RECURSIVE SortStrings(_)
\* Array.prototype.sort() without a compare function, on strings.
SortStrings(els) ==
  IF els = <<>> THEN <<>>
  ELSE LET i == CHOOSE i \in 1..Len(els) :
                  \A j \in 1..Len(els) :
                    \/ Rank(els[i].s) < Rank(els[j].s)
                    \/ (Rank(els[i].s) = Rank(els[j].s) /\ i <= j)
       IN <<els[i]>> \o SortStrings(SubSeq(els, 1, i - 1) \o SubSeq(els, i + 1, Len(els)))

RECURSIVE FlatMapEnum(_)
\* choices.flatMap((choice) => choice.enum)
FlatMapEnum(choices) ==
  IF choices = <<>> THEN <<>>
  ELSE Get(Head(choices), "enum").el \o FlatMapEnum(Tail(choices))

\* Merge choices, if they are all enums.
mergeEnumChoices(choices) ==
  IF /\ Len(choices) > 0
     /\ \A i \in 1..Len(choices) : IsArray(Get(choices[i], "enum"))
  THEN <<Put(choices[1], "enum", Arr(SortStrings(FlatMapEnum(choices))))>>
  ELSE choices

RECURSIVE AssignFrom(_, _, _)
AssignFrom(to, kv, i) ==
  IF i > Len(kv) THEN to ELSE AssignFrom(Put(to, kv[i].k, kv[i].v), kv, i + 1)
\* Object.assign(to, src) for an object src.
ObjectAssign(to, src) == IF src.t = "obj" THEN AssignFrom(to, src.kv, 1) ELSE to

\* Reduce the choices with respect to the requested manifest version, merge
\* enum choices, inline a single remaining choice.
collapseChoices(m, v) ==
  IF Truthy(Get(v, "choices")) /\ ~Truthy(Get(v, "$extend"))
  THEN LET choices == mergeEnumChoices(filterByVersion(m, Get(v, "choices").el))
       IN IF Len(choices) = 1
          THEN ObjectAssign(Del(v, "choices"), choices[1])
          ELSE Put(v, "choices", Arr(choices))
  ELSE v

isOdd(num) == num % 2 = 1

\* syntheticPathElement with a fault: no path element is inserted.
syntheticPathElementNone(pathElements) == pathElements

\* "returns", "items" and "additionalProperties" get an extra path element.
syntheticPathElement(pathElements) ==
  IF /\ ~isOdd(Len(pathElements))
     /\ LastRef(pathElements) \in {Str("returns"), Str("items"), Str("additionalProperties")}
  THEN Append(pathElements, PathElementInfo(Str("0"), "idx", Obj(<<>>)))
  ELSE pathElements

RECURSIVE EnumsFrom(_, _, _, _)
EnumsFrom(acc, keys, i, enums) ==
  IF i > Len(keys) THEN acc
  ELSE EnumsFrom(Put(acc, keys[i].s,
                     IF Truthy(Get(enums, keys[i].s))
                     THEN Get(enums, keys[i].s) ELSE Obj(<<>>)),
                 keys, i + 1, enums)
\* Add missing enums objects and remove unsupported enums objects.
addEnums(v) ==
  IF Truthy(Get(v, "enum"))
  THEN Put(v, "enums", EnumsFrom(Obj(<<>>), Get(v, "enum").el, 1, Get(v, "enums")))
  ELSE v

\* Object.keys(x).length
NumKeys(x) ==
  CASE x.t = "obj" -> Len(x.kv)
    [] x.t = "arr" -> Len(x.el)
    [] OTHER -> 0

\* Remove empty enums entries.
removeEmptyEnums(v) ==
  IF Truthy(Get(v, "enums"))
  THEN LET filtered == Obj(SelectSeq(Get(v, "enums").kv, LAMBDA p : NumKeys(p.v) > 0))
       IN IF NumKeys(filtered) > 0 THEN Put(v, "enums", filtered) ELSE Del(v, "enums")
  ELSE v

-----------------------------------------------------------------------------
(* processSchema with a searchPath: the search for an address in the schema
   of a historical revision.  The caller (testRevision) reads searchPath.found
   and drops the returned value, so the search is modelled by its flag. *)

\* A path reference as Array.prototype.join renders it: a name as it is, an
\* index in decimal digits.
RefText(ref) == IF ref.t = "num" THEN IdxKey(ref.n + 1) ELSE ref.s

\* path.map((e) => e.ref).join('~'), kept as the sequence of the joined texts.
\* The names of the modelled inputs contain no '~'.
JoinRefs(path) == [k \in 1..Len(path) |-> RefText(path[k].ref)]

\* a.startsWith(b) for two names of the modelled inputs: "getAll" starts with
\* "get", every name starts with itself.
NameStartsWith(a, b) == a = b \/ <<a, b>> \in {<<"getAll", "get">>}

\* searchPathRef.startsWith(pathRef): the comparison is one of characters, so
\* the last segment of pathRef needs to be the beginning of a segment only.
startsWith(s, p) ==
  \/ Len(p) = 0
  \/ /\ Len(p) <= Len(s)
     /\ SubSeq(s, 1, Len(p) - 1) = SubSeq(p, 1, Len(p) - 1)
     /\ NameStartsWith(s[Len(p)], p[Len(p)])

\* s.endsWith('~' + suffix.join('~')): the leading '~' asks for a segment
\* before the suffix.
endsWith(s, suffix) ==
  /\ Len(s) > Len(suffix)
  /\ SubSeq(s, Len(s) - Len(suffix) + 1, Len(s)) = suffix

\* sliceOff with a fault: two segments are cut off whatever the suffix is.
sliceOffTwo(s, segments) == SubSeq(s, 1, Len(s) - 2)

\* s.slice(0, -18) and s.slice(0, -10): '~items~0~choices~0' has 18
\* characters in four segments, '~choices~0' has 10 in two.
sliceOff(s, segments) == SubSeq(s, 1, Len(s) - segments)

\* The search block at the head of processSchema: "return" (the searched
\* element is no child of the current path), "found" (searchPath.found is
\* set) or "descend".
searchStep(sp, pathElements) ==
  LET searchPathRef == JoinRefs(sp)
      pathRef == JoinRefs(pathElements)
  IN IF ~startsWith(searchPathRef, pathRef) THEN "return"
     ELSE IF /\ endsWith(searchPathRef, <<"items", "0", "choices", "0">>)
             /\ sliceOff(searchPathRef, 4) = pathRef
       THEN "found"
     ELSE IF /\ ~endsWith(searchPathRef, <<"items", "0", "choices", "0">>)
             /\ endsWith(searchPathRef, <<"choices", "0">>)
             /\ sliceOff(searchPathRef, 2) = pathRef
       THEN "found"
     ELSE IF searchPathRef = pathRef THEN "found"
     ELSE "descend"

RECURSIVE searchSchema(_, _, _, _)
\* await processSchema({ config, value, fullPath, searchPath }), then
\* !!searchPath.found
searchSchema(m, v, fullPath, sp) ==
  LET step == searchStep(sp, fullPath)
  IN IF step = "found" THEN TRUE
     ELSE IF step = "return" THEN FALSE
     ELSE IF ~IsObject(v) THEN FALSE
     ELSE IF IsArray(v)
       THEN LET filtered == filterByVersion(m, v.el)
            IN \E k \in 1..Len(filtered) :
                 searchSchema(m, filtered[k],
                              Append(fullPath, arrayPathElement(fullPath, filtered[k], k - 1)),
                              sp)
     ELSE LET w == addEnums(collapseChoices(m, reduceByVersion(m, v)))
              pathElements == syntheticPathElement(fullPath)
          IN \E k \in 1..Len(w.kv) :
               searchSchema(m, w.kv[k].v,
                            Append(pathElements, PathElement(Str(w.kv[k].k), "property")),
                            sp)

-----------------------------------------------------------------------------
(* The historical revision resolver.  One schema file is followed, so the
   file name is no parameter; the schemas of the revisions are the files of
   `remote`. *)

\* processImports(jsonUtils.parse(await readCachedUrl(schema_url))), then the
\* search: does the schema of `revision` have the searched element?
testRevision(m, sp, revision) ==
  LET parsed == remote.files[revision]
  IN searchSchema(m, processImports(parsed, parsed), <<>>, sp)

\* majorVersion with a fault: the version file is read at the newest
\* revision of the log.
majorVersionOfNewest(revision) == Str(remote.versions[remote.log[1]][1])

\* readCachedUrl(version_url).then((v) => v.split('.').at(0)): the version
\* text is kept as the sequence of its pieces between the dots.
majorVersion(revision) == Str(remote.versions[revision][1])

RECURSIVE extractFrom(_, _, _)
\* for (let i = rev.entries.length; i > 0; i--): the rounds from i = k on.
extractFrom(m, sp, k) ==
  IF k = 0 THEN Bool(FALSE)
  ELSE IF testRevision(m, sp, remote.log[k]) THEN majorVersion(remote.log[k])
  ELSE extractFrom(m, sp, k - 1)

extractThunderbirdCompatData(m, sp) == extractFrom(m, sp, Len(remote.log))

-----------------------------------------------------------------------------
(* The compat data functions *)

\* value.annotations, created empty when missing
withAnnotations(v) ==
  IF ~Truthy(Get(v, "annotations")) THEN Put(v, "annotations", Arr(<<>>)) ELSE v
\* value.annotations.push(a)
pushAnnotation(v, a) ==
  Put(v, "annotations", Arr(Append(Get(v, "annotations").el, a)))
\* hasAnnotation with a fault: an annotation that is there is never seen.
hasAnnotationNever(v, key) == FALSE

\* value.annotations.some((a) => Object.hasOwn(a, key)), and
\* value.annotations.find((a) => Object.hasOwn(a, 'version_added'))
hasAnnotation(v, key) ==
  \E k \in 1..Len(Get(v, "annotations").el) : Has(Get(v, "annotations").el[k], key)

\* path.split('.') for the namespace names of the modelled inputs
splitDots(name) ==
  IF name = "privacy.network" THEN <<"privacy", "network">> ELSE <<name>>

RECURSIVE getNestedFrom(_, _)
getNestedFrom(acc, keys) ==
  IF keys = <<>> THEN acc ELSE getNestedFrom(Get(acc, Head(keys)), Tail(keys))
\* getNested(obj, path)
getNested(obj, path) == getNestedFrom(obj, splitDots(path))

RECURSIVE followSearchPath(_, _, _)
\* Dive and follow the searchPath: the loop from testDepth on (testDepth
\* counts from 0, as the index of the source does).
followSearchPath(entry, sp, testDepth) ==
  IF ~(Len(sp) > testDepth) THEN entry
  ELSE LET pe == sp[testDepth + 1]
           key == IF pe.type = "idx" /\ Truthy(Get(pe.info, "name"))
                  THEN Get(pe.info, "name").s
                  ELSE RefText(pe.ref)
           next == Get(entry, key)
       IN IF ~Truthy(next) THEN Undefined
          ELSE followSearchPath(next, sp, testDepth + 2)

\* parseInt(x, 10) of the version values of the modelled inputs; isNaNInt
\* tells whether the result is NaN, parseInt is read only when it is not.
isNaNInt(x) ==
  ~(x.t = "num" \/ (x.t = "str" /\ x.s \in {"45", "57", "78", "91", "102"}))
parseInt(x) ==
  IF x.t = "num" THEN x.n
  ELSE CASE x.s = "45" -> 45 [] x.s = "57" -> 57 [] x.s = "78" -> 78
         [] x.s = "91" -> 91 [] x.s = "102" -> 102

\* pickVersion with a fault: the Firefox value is attached whatever the
\* Thunderbird value is.
pickVersionFirefoxOnly(thunderbird_version, firefox_version) == firefox_version

\* If Thunderbird globally specifies a higher version than Firefox/BCD, use
\* that instead.
pickVersion(thunderbird_version, firefox_version) ==
  IF /\ ~isNaNInt(thunderbird_version)
     /\ \/ firefox_version = Bool(TRUE)
        \/ isNaNInt(firefox_version)
        \/ parseInt(thunderbird_version) > parseInt(firefox_version)
  THEN thunderbird_version
  ELSE firefox_version

RECURSIVE pushNotes(_, _, _)
pushNotes(v, notes, k) ==
  IF k > Len(notes) THEN v
  ELSE pushNotes(pushAnnotation(v, Obj(<<KV("note", Text(rebrand(notes[k].toks))),
                                         KV("bcd", Bool(TRUE))>>)),
                 notes, k + 1)

\* The keys Object.keys visits: the names of an object, the indices of an
\* array (a list of support statements).
ownKeys(x) ==
  IF x.t = "obj" THEN Keys(x)
  ELSE IF x.t = "arr" THEN [k \in 1..Len(x.el) |-> IdxKey(k)]
  ELSE <<>>

RECURSIVE firefoxSupport(_, _, _, _, _)
\* for (const key of Object.keys(compatData.support.firefox)): the rounds
\* from key number k on.
firefoxSupport(si, v, firefox, keys, k) ==
  IF k > Len(keys) THEN v
  ELSE LET key == keys[k]
           next ==
             IF key \in {"version_added", "version_removed"}
             THEN IF ~hasAnnotation(v, key)
                  THEN pushAnnotation(v, Obj(<<KV(key, pickVersion(Get(si, key),
                                                                   Get(firefox, key)))>>))
                  ELSE v
             ELSE IF key = "notes"
             THEN pushNotes(v, IF IsArray(Get(firefox, "notes"))
                               THEN Get(firefox, "notes").el
                               ELSE <<Get(firefox, "notes")>>, 1)
             ELSE v
       IN firefoxSupport(si, next, firefox, keys, k + 1)

\* Add Firefox compatibility data from BCD.
addFirefoxCompatData(si, v, sp) ==
  LET entry0 == getNested(remote.bcd, RefText(sp[1].ref))
      entry == IF Truthy(entry0) THEN followSearchPath(entry0, sp, 2) ELSE Undefined
      compatData == Get(entry, "__compat")
      firefox == Get(Get(compatData, "support"), "firefox")
      withUrl == IF Truthy(Get(compatData, "mdn_url"))
                 THEN pushAnnotation(withAnnotations(v),
                        Obj(<<KV("mdn_documentation_url", Get(compatData, "mdn_url"))>>))
                 ELSE v
  IN IF ~Truthy(entry) \/ ~Truthy(compatData) THEN v
     ELSE IF Truthy(firefox)
       THEN firefoxSupport(si, withAnnotations(withUrl), firefox, ownKeys(firefox), 1)
     ELSE withUrl

\* String.prototype.toLowerCase for the names of the modelled inputs
toLowerCase(name) ==
  CASE name = "myFunction" -> "myfunction"
    [] name = "onEvent" -> "onevent"
    [] name = "MyType" -> "mytype"
    [] name = "dataId" -> "dataid"
    [] OTHER -> name

\* What join('-') renders for an entry of anchorParts: undefined gives the
\* empty text.
partText(x) == IF x.t = "undef" THEN "" ELSE RefText(x)

\* anchorOf with a fault: the parameter callback is not left out.
anchorOfWithCallback(v, entryName) ==
  LET names == IF Truthy(Get(v, "parameters"))
               THEN [k \in 1..Len(Get(v, "parameters").el) |->
                       Get(Get(v, "parameters").el[k], "name")]
               ELSE <<>>
      anchorParts == <<entryName>> \o names
  IN [k \in 1..Len(anchorParts) |-> toLowerCase(partText(anchorParts[k]))]

\* anchorParts.join('-').toLowerCase(), kept as the sequence of the joined
\* texts
anchorOf(v, entryName) ==
  LET names == IF Truthy(Get(v, "parameters"))
               THEN SelectSeq([k \in 1..Len(Get(v, "parameters").el) |->
                                 Get(Get(v, "parameters").el[k], "name")],
                              LAMBDA e : e # Str("callback"))
               ELSE <<>>
      anchorParts == <<entryName>> \o names
  IN [k \in 1..Len(anchorParts) |-> toLowerCase(partText(anchorParts[k]))]

\* `${getApiDocSlug(config)}/${namespaceName}.html#${anchor}`; config.docRelease
\* is neither 'beta' nor 'esr', the slug ends in mv<manifest_version>.
DocUrl(m, namespaceName, anchor) ==
  [t |-> "url", slug |-> m, ns |-> RefText(namespaceName), anchor |-> anchor]

\* await validateUrl(api_documentation_url, ...): is the page reachable?
validateUrl(url) == remote.docs

\* Add generated Thunderbird compatibility data.
addThunderbirdCompatData(m, si, v, sp) ==
  LET v1 == withAnnotations(v)
      api_documentation_url == DocUrl(m, sp[1].ref, anchorOf(v1, sp[3].ref))
      v2 == IF Len(sp) = 3 /\ validateUrl(api_documentation_url)
            THEN pushAnnotation(v1, Obj(<<KV("api_documentation_url", api_documentation_url)>>))
            ELSE v1
  IN IF ~hasAnnotation(v2, "version_added")
     THEN pushAnnotation(v2, Obj(<<KV("version_added", extractThunderbirdCompatData(m, sp))>>))
     ELSE v2

\* The groups whose members are API elements, and the parents whose
\* children get no compat data of their own.
CompatGroups ==
  {"types", "functions", "events", "properties", "extraParameters",
   "parameters", "choices", "enums"}
SkippedParents ==
  {"annotations", "items", "returns", "patternProperties",
   "additionalProperties", "filters"}

\* [...].includes(pathElements.at(-2)?.ref)
parentIn(pathElements, names) ==
  /\ Len(pathElements) >= 2
  /\ pathElements[Len(pathElements) - 1].ref \in {Str(n) : n \in names}

\* Skip permission container (extend OptionalPermission etc).
isPermissionContainer(pathElements) ==
  /\ Len(pathElements) = 5
  /\ pathElements[1].ref = Str("manifest")
  /\ pathElements[2].ref = Str("types")
  /\ pathElements[3].type = "$extend"
  /\ pathElements[4].ref = Str("choices")

\* The condition of "Generate compat data if needed", for a call without a
\* searchPath.
compatWanted(v, pathElements) ==
  /\ Len(pathElements) > 0
  /\ isOdd(Len(pathElements))
  /\ ~parentIn(pathElements, SkippedParents)
  /\ ~Truthy(Get(v, "$extend"))
  /\ ~isPermissionContainer(pathElements)

\* compatHandled with a fault: every wanted node is handled.
compatHandledAlways(pathElements) == TRUE

\* The inner condition: a namespace entry, or a member of one of the groups.
compatHandled(pathElements) ==
  \/ Len(pathElements) = 1
  \/ parentIn(pathElements, CompatGroups)

\* Is compat data generated for the node v at pathElements?
compatGenerated(v, pathElements) ==
  compatWanted(v, pathElements) /\ compatHandled(pathElements)

\* Generate compat data if needed.
generateCompatData(m, si, v, pathElements) ==
  IF compatGenerated(v, pathElements)
  THEN IF Get(si, "owner") = Str("firefox")
         THEN addFirefoxCompatData(si, v, pathElements)
       ELSE IF Get(si, "owner") = Str("thunderbird")
         THEN addThunderbirdCompatData(m, si, v, pathElements)
       ELSE v
  ELSE v

RECURSIVE processSchema(_, _, _, _)

\* Handle array properties.
processArray(m, v, pathElements, si) ==
  LET filtered == filterByVersion(m, v.el)
  IN Arr([i \in 1..Len(filtered) |->
            processSchema(m, filtered[i],
                          Append(pathElements,
                                 arrayPathElement(pathElements, filtered[i], i - 1)),
                          si)])

\* The value the property loop stores under `key` for the processed value pv.
propertyValue(key, pv) ==
  IF key \in {"description", "deprecated"} /\ IsString(pv)
  THEN rewriteDescription(pv)
  ELSE pv

\* Dive into the object's properties.
processProperties(m, v, pathElements, si) ==
  LET processed ==
        [i \in 1..Len(v.kv) |->
           KV(v.kv[i].k,
              propertyValue(v.kv[i].k,
                processSchema(m, v.kv[i].v,
                  Append(pathElements, PathElement(Str(v.kv[i].k), "property")),
                  si)))]
  IN Obj(SelectSeq(processed, LAMBDA p : ~isLimitKey(p.k)))

\* processSchema({ config, value, fullPath, schemaInfo }), without a
\* searchPath (see searchSchema for the call with one).
processSchema(m, v, fullPath, si) ==
  IF ~IsObject(v) THEN v
  ELSE IF IsArray(v) THEN processArray(m, v, fullPath, si)
  ELSE removeEmptyEnums(
         processProperties(m,
           generateCompatData(m, si,
             addEnums(collapseChoices(m, reduceByVersion(m, v))),
             syntheticPathElement(fullPath)),
           syntheticPathElement(fullPath),
           si))

-----------------------------------------------------------------------------
(* Inputs of processSchema *)

\* Bound: the largest number of elements of an array, of properties of an
\* object and of members of a choices array.
MaxLen == 3

ManifestVersions == {2, 3}

Limits(min, max) ==
  (IF min > 0 THEN <<KV("min_manifest_version", Num(min))>> ELSE <<>>) \o
  (IF max > 0 THEN <<KV("max_manifest_version", Num(max))>> ELSE <<>>)

\* No limits, only in version 3, only in version 2, in versions 2 and 3.
LimitOpts == {Limits(0, 0), Limits(3, 0), Limits(0, 2), Limits(2, 3)}

SeqsUpTo(S, n) == UNION {[1..k -> S] : k \in 0..n}

ElemName(i) ==
  CASE i = 1 -> "e1" [] i = 2 -> "e2" [] i = 3 -> "e3" [] i = 4 -> "e4" [] OTHER -> "e5"
Elem(i, lim) == Obj(<<KV("value", Str(ElemName(i)))>> \o lim)

ArrayInputs ==
  {Arr([i \in 1..Len(ls) |-> Elem(i, ls[i])]) : ls \in SeqsUpTo(LimitOpts, MaxLen)}
ObjectInputs ==
  {Obj([i \in 1..Len(ls) |-> KV(ElemName(i), Elem(i, ls[i]))]) :
     ls \in SeqsUpTo(LimitOpts, MaxLen)}

Enum(vals) == Arr([i \in 1..Len(vals) |-> Str(vals[i])])
EnumChoice(vals, lim) == Obj(<<KV("enum", Enum(vals))>> \o lim)

ChoiceMembers ==
  { EnumChoice(<<"a">>, Limits(0, 0)),
    EnumChoice(<<"a">>, Limits(3, 0)),
    EnumChoice(<<"b", "a">>, Limits(0, 0)),
    EnumChoice(<<"c">>, Limits(0, 2)),
    Obj(<<KV("type", Str("string"))>>),
    Obj(<<KV("type", Str("integer"))>> \o Limits(3, 0)),
    Obj(<<KV("choices", Arr(<<EnumChoice(<<"a">>, Limits(0, 0)),
                              EnumChoice(<<"d">>, Limits(0, 0))>>))>>) }

\* The parent of a choices array: bare, with a key of its own, or extending
\* another type.
ChoiceParents(members) ==
  { Obj(<<KV("choices", Arr(members))>>),
    Obj(<<KV("name", Str("param")), KV("choices", Arr(members))>>),
    Obj(<<KV("$extend", Str("Permission")), KV("choices", Arr(members))>>) }

ChoiceInputs ==
  UNION {ChoiceParents(ms) : ms \in SeqsUpTo(ChoiceMembers, MaxLen)}

\* A function entry with a description, annotated enum values, parameters and
\* a return value, alone and inside a namespace.
FunctionEntry(lim) ==
  Obj(<<KV("name", Str("create")),
        KV("type", Str("function")),
        KV("description",
           Text(<<Lit("Firefox"), Role("doc", "guide"), Role("permission", "tabs"),
                  UrlPh("test-url", "Example"), UrlPh("unknown", "Label"),
                  UrlPh("fx-url", "Firefox"), UrlPh("Firefox", "Firefox"),
                  UrlPh("empty-url", "Label"),
                  RelHref("docs-url"), Tick2("code"), Tick1("x")>>)),
        KV("parameters",
           Arr(<<Obj(<<KV("name", Str("mode")),
                       KV("enum", Enum(<<"a", "b">>)),
                       KV("enums", Obj(<<KV("a", Obj(<<KV("description", Text(<<Lit("Firefox")>>))>>)),
                                         KV("c", Obj(<<KV("note", Str("gone"))>>))>>))>>),
                 Obj(<<KV("name", Str("callback")), KV("type", Str("function"))>> \o lim)>>)),
        KV("returns", Obj(<<KV("type", Str("object")),
                            KV("properties", Obj(<<KV("id", Elem(1, lim))>>))>>))>> \o lim)

MiscInputs ==
  UNION {{FunctionEntry(lim),
          Arr(<<Obj(<<KV("namespace", Str("ns")),
                      KV("functions", Arr(<<FunctionEntry(lim)>>))>>)>>)} :
           lim \in LimitOpts}

SchemaInputs == ArrayInputs \cup ObjectInputs \cup ChoiceInputs \cup MiscInputs

InitSchema ==
  /\ schema = Undefined
  /\ value \in SchemaInputs
  /\ mv \in ManifestVersions
  /\ out = Undefined
  /\ out2 = Undefined
  /\ pc = "start"
  /\ schemaInfo = Undefined
  /\ searchPath = Undefined
  /\ remote = Undefined
  /\ revIdx = 0
  /\ tested = <<>>

\* result = await processSchema({ config, value })
RunSchema ==
  /\ pc = "start"
  /\ out' = processSchema(mv, value, <<>>, schemaInfo)
  /\ pc' = "done"
  /\ UNCHANGED <<schema, value, mv, out2, schemaInfo, searchPath, remote, revIdx, tested>>

\* processSchema({ config, value: result }): a second pass over the result
RunSchemaAgain ==
  /\ pc = "done"
  /\ out2' = processSchema(mv, out, <<>>, schemaInfo)
  /\ pc' = "again"
  /\ UNCHANGED <<schema, value, mv, out, schemaInfo, searchPath, remote, revIdx, tested>>

NextSchema == RunSchema \/ RunSchemaAgain
SpecSchema == InitSchema /\ [][NextSchema]_vars

-----------------------------------------------------------------------------
(* Claims about processSchema, checked under SpecSchema *)

\* The retention rule as the specification states it, for the manifest
\* version of the state.
KeptAsClaimed(e) ==
  /\ (~Has(e, "min_manifest_version") \/ Get(e, "min_manifest_version").n <= mv)
  /\ (~Has(e, "max_manifest_version") \/ Get(e, "max_manifest_version").n >= mv)

\* C1: an array keeps exactly the elements in the version range, in their
\* original order; an object keeps exactly the property values in the range.
C1_VersionFilter ==
  pc = "done" =>
    /\ value.t = "arr" =>
         LET kept == SelectSeq(value.el, KeptAsClaimed)
         IN /\ out.t = "arr"
            /\ Len(out.el) = Len(kept)
            /\ \A i \in 1..Len(kept) :
                 Get(out.el[i], "value") = Get(kept[i], "value")
    /\ (value.t = "obj" /\ ~Has(value, "choices")) =>
         \A k \in KeySet(value) \ (LimitKeys \cup {"enums"}) :
           Has(out, k) <=> KeptAsClaimed(Get(value, k))

\* The scenario of the specification: a, b (from version 3), c (up to
\* version 2), filtered at version 3, gives a and b.
C1_Witness ==
  /\ pc = "done"
  /\ mv = 3
  /\ value = Arr(<<Elem(1, Limits(0, 0)), Elem(2, Limits(3, 0)), Elem(3, Limits(0, 2))>>)
  /\ out = Arr(<<Elem(1, Limits(0, 0)), Elem(2, Limits(0, 0))>>)

\* C2: no object of the returned tree has a min_manifest_version or
\* max_manifest_version key.
C2_NoLimitKeysLeft ==
  pc \in {"done", "again"} =>
    \A p \in Paths(out) :
      p # <<>> => p[Len(p)] \notin {PKey("min_manifest_version"), PKey("max_manifest_version")}

\* The members of value.choices in the version range of the state.
Survivors == SelectSeq(Get(value, "choices").el, KeptAsClaimed)
IsEnumOnly(c) == c.t = "obj" /\ KeySet(c) \subseteq ({"enum"} \cup LimitKeys) /\ Has(c, "enum")
HasChoices == value.t = "obj" /\ Has(value, "choices")
Extends == Has(value, "$extend")

\* A sole surviving choice that carried a manifest limit was inlined into its
\* parent.
C2_Witness ==
  /\ pc = "done"
  /\ HasChoices /\ ~Extends
  /\ Len(Survivors) = 1
  /\ Has(Survivors[1], "min_manifest_version")
  /\ ~Has(out, "choices")
  /\ Has(out, "type")

\* C8 (as claimed): when every surviving member of a choices array is
\* enum-only and filtering removed a member, the parent gets one enum holding
\* every value of every survivor, none twice, in ascending order.
C8_SortedUnion ==
  (/\ pc = "done"
   /\ HasChoices /\ ~Extends
   /\ Len(Survivors) > 0
   /\ Len(Survivors) < Len(Get(value, "choices").el)
   /\ \A i \in 1..Len(Survivors) : IsEnumOnly(Survivors[i]))
  => /\ ~Has(out, "choices")
     /\ IsArray(Get(out, "enum"))
     /\ LET e == Get(out, "enum").el
        IN /\ {e[i] : i \in 1..Len(e)} =
                UNION {{Get(Survivors[j], "enum").el[i] :
                          i \in 1..Len(Get(Survivors[j], "enum").el)} :
                       j \in 1..Len(Survivors)}
           /\ \A i \in 1..(Len(e) - 1) : Rank(e[i].s) < Rank(e[i + 1].s)

\* C9 (as claimed): a choices array from which version filtering removed no
\* member is returned with the same number of members, neither merged nor
\* inlined.
C9_OnlyAfterFiltering ==
  (/\ pc = "done"
   /\ HasChoices /\ ~Extends
   /\ Len(Survivors) = Len(Get(value, "choices").el))
  => /\ Has(out, "choices")
     /\ Len(Get(out, "choices").el) = Len(Get(value, "choices").el)

RECURSIVE JsonEqual(_, _)
\* Equality of JSON values, the order of object keys aside.
JsonEqual(x, y) ==
  /\ x.t = y.t
  /\ CASE x.t = "obj" ->
            /\ KeySet(x) = KeySet(y)
            /\ \A k \in KeySet(x) : JsonEqual(Get(x, k), Get(y, k))
       [] x.t = "arr" ->
            /\ Len(x.el) = Len(y.el)
            /\ \A i \in 1..Len(x.el) : JsonEqual(x.el[i], y.el[i])
       [] OTHER -> x = y

\* C10 (as claimed): processSchema applied to its own result, with the same
\* manifest version, returns an equal tree.
C10_Idempotent ==
  pc = "again" => JsonEqual(out2, out)

-----------------------------------------------------------------------------
(* The calls of the walk *)

\* One call of processSchema: the path it was given (fullPath), the path after
\* the insertion of the extra element (pathElements), the value it was given,
\* whether the compat data functions were to be called for it (an owner
\* given), its value before and after the generation of compat data, and
\* whether that changed the value.
Call(fullPath, pathElements, v, generated, before, after) ==
  [fullPath |-> fullPath, pathElements |-> pathElements, value |-> v,
   generated |-> generated, before |-> before, after |-> after,
   compat |-> before # after]

RECURSIVE Calls(_, _, _, _)
\* The calls of processSchema made for v at fullPath: the call itself and the
\* calls for the elements of the filtered array or for the property values.
Calls(m, v, fullPath, si) ==
  IF ~IsObject(v) THEN {Call(fullPath, fullPath, v, FALSE, v, v)}
  ELSE IF IsArray(v)
    THEN LET filtered == filterByVersion(m, v.el)
         IN {Call(fullPath, fullPath, v, FALSE, v, v)} \cup
            UNION {Calls(m, filtered[k],
                         Append(fullPath, arrayPathElement(fullPath, filtered[k], k - 1)),
                         si) : k \in 1..Len(filtered)}
  ELSE LET pathElements == syntheticPathElement(fullPath)
           w == addEnums(collapseChoices(m, reduceByVersion(m, v)))
           withCompat == generateCompatData(m, si, w, pathElements)
       IN {Call(fullPath, pathElements, v, compatGenerated(w, pathElements),
                w, withCompat)} \cup
          UNION {Calls(m, withCompat.kv[k].v,
                       Append(pathElements, PathElement(Str(withCompat.kv[k].k), "property")),
                       si) : k \in 1..Len(withCompat.kv)}

-----------------------------------------------------------------------------
(* Schema files: inputs of the walk over a whole file *)

\* Bound: the largest number of entries of the functions or types group of
\* a generated schema file.
MaxEntries == 2

Typed(s) == KV("type", Str(s))
Named(s) == KV("name", Str(s))

FunctionPool ==
  { Obj(<<Named("get"), Typed("function"),
          KV("parameters", Arr(<<Obj(<<Named("dataId"), Typed("integer")>>),
                                 Obj(<<Named("callback"), Typed("function")>>)>>)),
          KV("returns", Obj(<<Typed("object"),
                              KV("properties", Obj(<<KV("p", TypeOf("string"))>>))>>))>>),
    Obj(<<Named("get"), Typed("function"), KV("max_manifest_version", Num(2)),
          KV("parameters", Arr(<<Obj(<<Named("callback"), Typed("function")>>)>>))>>),
    Obj(<<Named("getAll"), Typed("function"), KV("min_manifest_version", Num(3)),
          KV("parameters",
             Arr(<<Obj(<<Named("filter"), Typed("array"),
                         KV("items", Obj(<<Typed("object"),
                                           KV("properties", Obj(<<KV("k", TypeOf("string"))>>))>>))>>)>>))>>),
    Obj(<<Named("myFunction"), Typed("function"),
          KV("parameters", Arr(<<Obj(<<Named("x"), KV("max_manifest_version", Num(2))>>),
                                 Obj(<<Named("y"),
                                       KV("choices", Arr(<<TypeOf("string"), TypeOf("integer")>>))>>),
                                 Obj(<<Named("callback")>>)>>))>>),
    Obj(<<Named("list"), Typed("function"),
          KV("parameters",
             Arr(<<Obj(<<Named("ids"), Typed("array"),
                         KV("items", Obj(<<KV("choices",
                                              Arr(<<TypeOf("integer"), TypeOf("string")>>))>>))>>)>>))>>),
    Obj(<<Typed("function"), KV("description", Text(<<Lit("Firefox")>>))>>) }

TypePool ==
  { Obj(<<KV("id", Str("MyType")), Typed("object"),
          KV("properties", Obj(<<KV("mode", Obj(<<Typed("string"), KV("enum", Enum(<<"a", "b">>))>>))>>)),
          KV("additionalProperties",
             Obj(<<Typed("object"), KV("properties", Obj(<<KV("z", TypeOf("any"))>>))>>))>>),
    Obj(<<Named("dual"), KV("id", Str("Dual")), Typed("string")>>),
    Obj(<<KV("id", Str("Choice")),
          KV("choices", Arr(<<TypeOf("string"),
                              Obj(<<Typed("integer"), KV("min_manifest_version", Num(3))>>)>>))>>),
    Obj(<<KV("$extend", Str("Permission")),
          KV("choices", Arr(<<Obj(<<Typed("string"), KV("enum", Enum(<<"a">>))>>)>>))>>),
    Obj(<<KV("id", Str("Opts")), Typed("object"),
          KV("default", Obj(<<KV("x", Obj(<<>>))>>))>>) }

\* A schema file: an array with one namespace entry.
SchemaFile(fns, types) ==
  Arr(<<Obj(<<KV("namespace", Str("ns")),
              KV("functions", Arr(fns)),
              KV("types", Arr(types)),
              KV("properties", Obj(<<KV("limit", Obj(<<KV("value", Num(5))>>))>>))>>)>>)

SchemaFiles ==
  {SchemaFile(fns, <<>>) : fns \in SeqsUpTo(FunctionPool, MaxEntries)} \cup
  {SchemaFile(<<>>, types) : types \in SeqsUpTo(TypePool, MaxEntries)}

InitPaths ==
  /\ schema = Undefined
  /\ value \in SchemaFiles
  /\ mv \in ManifestVersions
  /\ out = Undefined
  /\ out2 = Undefined
  /\ pc = "start"
  /\ schemaInfo = Undefined
  /\ searchPath = Undefined
  /\ remote = Undefined
  /\ revIdx = 0
  /\ tested = <<>>

\* schema.json = await processSchema({ config, value: schema.json })
RunPaths ==
  /\ pc = "start"
  /\ out' = processSchema(mv, value, <<>>, schemaInfo)
  /\ pc' = "done"
  /\ UNCHANGED <<schema, value, mv, out2, schemaInfo, searchPath, remote, revIdx, tested>>

NextPaths == RunPaths
SpecPaths == InitPaths /\ [][NextPaths]_vars

-----------------------------------------------------------------------------
(* The search for an address in the schema of a revision *)

\* The addresses compat data is generated for in the schema file f: the
\* search paths addThunderbirdCompatData hands to the revision resolver.
CompatPaths(m, f) ==
  {c.pathElements : c \in {d \in Calls(m, f, <<>>, Undefined) : d.generated}}

Param(name, rest) == Obj(<<Named(name)>> \o rest)
Fn(name, params) == Obj(<<Named(name), Typed("function"), KV("parameters", Arr(params))>>)

\* The schema file at revisions of its history: without entries; with get;
\* with list, whose parameter has no items yet, has items, has items with
\* choices; with myFunction, whose parameter y has no choices yet; with the
\* type Choice before it had choices; with every entry.
HistoricFiles ==
  { SchemaFile(<<>>, <<>>),
    SchemaFile(<<Fn("get", <<Param("dataId", <<Typed("integer")>>)>>)>>, <<>>),
    SchemaFile(<<Fn("list", <<Param("ids", <<Typed("array")>>)>>)>>, <<>>),
    SchemaFile(<<Fn("list", <<Param("ids", <<Typed("array"),
                                             KV("items", TypeOf("integer"))>>)>>)>>, <<>>),
    SchemaFile(<<Fn("list", <<Param("ids", <<Typed("array"),
                   KV("items", Obj(<<KV("choices", Arr(<<TypeOf("integer"),
                                                        TypeOf("string")>>))>>))>>)>>)>>, <<>>),
    SchemaFile(<<Fn("myFunction", <<Param("y", <<Typed("string")>>)>>)>>, <<>>),
    SchemaFile(<<>>, <<Obj(<<KV("id", Str("Choice")), Typed("string")>>)>>),
    SchemaFile(<<Fn("getAll", <<>>), Fn("myFunction", <<Param("y", <<KV("choices",
                   Arr(<<TypeOf("string"), TypeOf("integer")>>))>>)>>)>>,
               <<Obj(<<KV("id", Str("Choice")),
                       KV("choices", Arr(<<TypeOf("string"), TypeOf("integer")>>))>>)>>) }

\* `schema` is the file of today, searchPath one of its compat addresses,
\* `value` the file of the revision that is searched.
InitSearch ==
  /\ mv \in ManifestVersions
  /\ schema \in SchemaFiles
  /\ searchPath \in CompatPaths(mv, schema)
  /\ value \in HistoricFiles
  /\ out = Undefined
  /\ out2 = Undefined
  /\ pc = "start"
  /\ schemaInfo = Undefined
  /\ remote = Undefined
  /\ revIdx = 0
  /\ tested = <<>>

\* await processSchema({ config, value: schema, searchPath: searchPathClone });
\* return !!searchPathClone.found
RunSearch ==
  /\ pc = "start"
  /\ out' = Bool(searchSchema(mv, processImports(value, value), <<>>, searchPath))
  /\ pc' = "done"
  /\ UNCHANGED <<schema, value, mv, out2, schemaInfo, searchPath, remote, revIdx, tested>>

NextSearch == RunSearch
SpecSearch == InitSearch /\ [][NextSearch]_vars

\* The addresses of the nodes of the searched tree: the paths the calls of
\* the walk are given, and the paths with the inserted index.
Addresses ==
  LET calls == Calls(mv, value, <<>>, Undefined)
  IN {JoinRefs(c.fullPath) : c \in calls} \cup {JoinRefs(c.pathElements) : c \in calls}

Searched == JoinRefs(searchPath)
EndsItemsChoices == endsWith(Searched, <<"items", "0", "choices", "0">>)
EndsChoices == endsWith(Searched, <<"choices", "0">>)
Without(n) == SubSeq(Searched, 1, Len(Searched) - n)

\* C14 (as claimed): the address is reported found exactly when the tree has
\* a node at it, or the address ends in items~0~choices~0 or in choices~0
\* and the tree has a node at the address without its last two segments.
C14_FoundAsClaimed ==
  pc = "done" =>
    (out = Bool(TRUE) <=>
       \/ Searched \in Addresses
       \/ EndsItemsChoices /\ Without(2) \in Addresses
       \/ EndsChoices /\ Without(2) \in Addresses)

\* C14 (amended): the address is reported found exactly when the tree has a
\* node at it, or the address ends in items~0~choices~0 and the tree has a
\* node at the address without its last FOUR segments, or the address ends
\* in choices~0, not in items~0~choices~0, and the tree has a node at the
\* address without its last two segments.
C14_FoundAmended ==
  pc = "done" =>
    (out = Bool(TRUE) <=>
       \/ Searched \in Addresses
       \/ EndsItemsChoices /\ Without(4) \in Addresses
       \/ ~EndsItemsChoices /\ EndsChoices /\ Without(2) \in Addresses)

\* The parameter ids of list had no items at the searched revision: the
\* choice of its items is reported found, through the parameter.
C14_Witness ==
  /\ pc = "done"
  /\ Searched = <<"ns", "functions", "list", "parameters", "0", "items", "0", "choices", "0">>
  /\ <<"ns", "functions", "list", "parameters", "0">> \in Addresses
  /\ <<"ns", "functions", "list", "parameters", "0", "items">> \notin Addresses
  /\ out = Bool(TRUE)

-----------------------------------------------------------------------------
(* The revision resolver, one round of its loop per step *)

\* Bound: the largest number of entries of the revision log.
MaxRevisions == 3

\* The changeset identifier of the k-th revision of the file, counted from
\* the oldest, and the text of the version file at that revision, as its
\* pieces between the dots.
RevisionId(k) ==
  CASE k = 1 -> "r1" [] k = 2 -> "r2" [] k = 3 -> "r3" [] k = 4 -> "r4" [] OTHER -> "r5"
VersionText(k) ==
  CASE k = 1 -> <<"78", "0a1">> [] k = 2 -> <<"91", "0">> [] k = 3 -> <<"102", "0", "1">>
    [] k = 4 -> <<"115", "0">> [] OTHER -> <<"128", "0a1">>

\* rev.entries of a file with n revisions: the newest revision first.
RevisionLog(n) == [k \in 1..n |-> RevisionId(n - k + 1)]

\* The file of today, whose compat addresses are searched in its history.
TodaysFile ==
  SchemaFile(<<Fn("get", <<Param("dataId", <<Typed("integer")>>)>>),
               Fn("myFunction", <<Param("y", <<KV("choices",
                     Arr(<<TypeOf("string"), TypeOf("integer")>>))>>)>>)>>,
             <<Obj(<<KV("id", Str("MyType")), Typed("object")>>)>>)

\* What a revision of the file held: no entry, the function get, the
\* function myFunction with a plain parameter y, the file of today.
RevisionFiles ==
  { SchemaFile(<<>>, <<>>),
    SchemaFile(<<Fn("get", <<Param("dataId", <<Typed("integer")>>)>>)>>, <<>>),
    SchemaFile(<<Fn("myFunction", <<Param("y", <<Typed("string")>>)>>)>>, <<>>),
    TodaysFile }

\* What is read from outside when the file has n revisions.
Histories(n) ==
  {[bcd |-> Obj(<<>>),
    log |-> RevisionLog(n),
    files |-> [r \in {RevisionId(k) : k \in 1..n} |-> fs[CHOOSE k \in 1..n : RevisionId(k) = r]],
    versions |-> [r \in {RevisionId(k) : k \in 1..n} |->
                    VersionText(CHOOSE k \in 1..n : RevisionId(k) = r)],
    docs |-> FALSE,
    includes |-> <<>>] : fs \in [1..n -> RevisionFiles]}

InitHistory ==
  /\ mv \in ManifestVersions
  /\ schema = TodaysFile
  /\ searchPath \in CompatPaths(mv, schema)
  /\ remote \in UNION {Histories(n) : n \in 0..MaxRevisions}
  /\ value = Undefined
  /\ out = Undefined
  /\ out2 = Undefined
  /\ pc = "start"
  /\ schemaInfo = Undefined
  /\ revIdx = 0
  /\ tested = <<>>

\* rev = jsonUtils.parse(await readCachedUrl(rev_url)); let i = rev.entries.length
ReadLog ==
  /\ pc = "start"
  /\ revIdx' = Len(remote.log)
  /\ pc' = "loop"
  /\ UNCHANGED <<schema, value, mv, out, out2, schemaInfo, searchPath, remote, tested>>

\* A round of the loop whose testRevision gives false: i--
TestNotFound ==
  /\ pc = "loop"
  /\ revIdx > 0
  /\ ~testRevision(mv, searchPath, remote.log[revIdx])
  /\ tested' = Append(tested, remote.log[revIdx])
  /\ revIdx' = revIdx - 1
  /\ UNCHANGED <<schema, value, mv, out, out2, pc, schemaInfo, searchPath, remote>>

\* A round of the loop whose testRevision gives true: the version file of
\* the revision is read and its major version returned.
TestFound ==
  /\ pc = "loop"
  /\ revIdx > 0
  /\ testRevision(mv, searchPath, remote.log[revIdx])
  /\ tested' = Append(tested, remote.log[revIdx])
  /\ out' = majorVersion(remote.log[revIdx])
  /\ pc' = "done"
  /\ UNCHANGED <<schema, value, mv, out2, schemaInfo, searchPath, remote, revIdx>>

\* The loop ends with i = 0: return false
ReturnFalse ==
  /\ pc = "loop"
  /\ revIdx = 0
  /\ out' = Bool(FALSE)
  /\ pc' = "done"
  /\ UNCHANGED <<schema, value, mv, out2, schemaInfo, searchPath, remote, revIdx, tested>>

NextHistory == ReadLog \/ TestNotFound \/ TestFound \/ ReturnFalse
SpecHistory == InitHistory /\ [][NextHistory]_vars

\* The revisions of the log that have the searched address, as positions of
\* the log (1 is the newest).
Having == {k \in 1..Len(remote.log) : testRevision(mv, searchPath, remote.log[k])}
Max(S) == CHOOSE x \in S : \A y \in S : x >= y
\* The entries of the log from the last (the oldest) back to position k.
OldestBackTo(k) == [j \in 1..(Len(remote.log) - k + 1) |-> remote.log[Len(remote.log) - j + 1]]

\* C13: the revisions are tested from the oldest entry of the log on, in
\* order; the test stops at the first that has the address, and the result
\* is the major version read at that revision, whatever newer revisions
\* hold; the result is false when no revision has the address.  While the
\* loop runs, the revisions tested so far are the oldest ones, in order.
C13_OldestRevisionWins ==
  /\ pc = "loop" => tested = [j \in 1..(Len(remote.log) - revIdx) |->
                                remote.log[Len(remote.log) - j + 1]]
  /\ pc = "done" =>
       /\ out = extractThunderbirdCompatData(mv, searchPath)
       /\ IF Having = {}
          THEN /\ out = Bool(FALSE)
               /\ tested = OldestBackTo(1)
          ELSE /\ out = Str(remote.versions[remote.log[Max(Having)]][1])
               /\ tested = OldestBackTo(Max(Having))

\* The scenario of the specification: a log of three entries, the element is
\* there from the second revision on (the middle and the newest have it):
\* the result is the major version of the middle one.
C13_Witness ==
  /\ pc = "done"
  /\ Len(remote.log) = 3
  /\ Having = {1, 2}
  /\ tested = <<"r1", "r2">>
  /\ out = Str("91")

-----------------------------------------------------------------------------
(* The walk over a schema file of an owner: compat data is generated *)

Annotation(key, x) == Obj(<<KV(key, x)>>)

\* The annotations an annotation file gave the function myFunction: none, a
\* version_added, a note, both.
FileAnnotations ==
  { <<>>,
    <<KV("annotations", Arr(<<Annotation("version_added", Str("60"))>>))>>,
    <<KV("annotations", Arr(<<Annotation("note", Text(<<Lit("Firefox")>>))>>))>>,
    <<KV("annotations", Arr(<<Annotation("note", Text(<<Lit("Firefox")>>)),
                              Annotation("version_added", Str("60"))>>))>> }

\* The parameters of myFunction: x and callback; x, limited to manifest
\* version 2, z and callback; none.
ParameterLists ==
  { <<KV("parameters", Arr(<<Param("x", <<>>), Param("callback", <<>>)>>))>>,
    <<KV("parameters", Arr(<<Param("x", <<KV("max_manifest_version", Num(2))>>),
                             Param("dataId", <<>>), Param("callback", <<>>)>>))>>,
    <<>> }

CompatFiles ==
  {SchemaFile(<<Obj(<<Named("myFunction"), Typed("function")>> \o ps \o as)>>, <<>>) :
     ps \in ParameterLists, as \in FileAnnotations}

\* compatData.support.firefox of myFunction in the browser compat data: one
\* support statement with a version_added (true, false, a version, a word),
\* with a version_removed, with one note or a list of notes; a list of
\* support statements.
FirefoxSupports ==
  {Obj(<<KV("version_added", x)>>) :
     x \in {Bool(TRUE), Bool(FALSE), Str("45"), Str("78"), Str("91"), Str("preview")}} \cup
  { Obj(<<KV("version_added", Str("45")), KV("version_removed", Str("91"))>>),
    Obj(<<KV("version_added", Str("57")), KV("notes", Text(<<Lit("Firefox")>>))>>),
    Obj(<<KV("version_added", Str("57")),
          KV("notes", Arr(<<Text(<<Lit("Firefox")>>), Text(<<Lit("n")>>)>>))>>),
    Arr(<<Obj(<<KV("version_added", Str("91"))>>), Obj(<<KV("version_added", Str("57"))>>)>>) }

\* bcd.webextensions.api: the namespace ns with the function myFunction and
\* its parameter x.
Bcd(firefox) ==
  Obj(<<KV("ns",
          Obj(<<KV("__compat", Obj(<<KV("mdn_url", Str("mdn/ns"))>>)),
                KV("myFunction",
                   Obj(<<KV("__compat", Obj(<<KV("mdn_url", Str("mdn/ns/myFunction")),
                                              KV("support", Obj(<<KV("firefox", firefox)>>))>>)),
                         KV("x", Obj(<<KV("__compat",
                                  Obj(<<KV("support", Obj(<<KV("firefox",
                                        Obj(<<KV("version_added", Str("57"))>>))>>))>>))>>))>>))>>))>>)

\* What is read from outside: the compat data, a history of two revisions
\* (get was there first), documentation pages that are reachable or not.
Outside(firefox, docs) ==
  [bcd |-> Bcd(firefox),
   log |-> RevisionLog(2),
   files |-> [r \in {RevisionId(1), RevisionId(2)} |->
                IF r = RevisionId(1)
                THEN SchemaFile(<<Fn("get", <<Param("dataId", <<Typed("integer")>>)>>)>>, <<>>)
                ELSE TodaysFile],
   versions |-> [r \in {RevisionId(1), RevisionId(2)} |->
                   IF r = RevisionId(1) THEN VersionText(1) ELSE VersionText(2)],
   docs |-> docs,
   includes |-> <<>>]

\* schemaInfo: the owner and, for a Firefox schema, the version_added of the
\* root entry of its annotation file (the lower limit), if there is one.
FirefoxInfos ==
  { Obj(<<KV("owner", Str("firefox"))>>),
    Obj(<<KV("owner", Str("firefox")), KV("version_added", Str("57"))>>),
    Obj(<<KV("owner", Str("firefox")), KV("version_added", Str("78"))>>) }
ThunderbirdInfo == Obj(<<KV("owner", Str("thunderbird"))>>)

InitCompat ==
  /\ mv \in ManifestVersions
  /\ \/ /\ value \in CompatFiles
        /\ schemaInfo \in FirefoxInfos
        /\ remote \in {Outside(f, FALSE) : f \in FirefoxSupports}
     \/ /\ value \in CompatFiles \cup SchemaFiles
        /\ schemaInfo = ThunderbirdInfo
        /\ remote \in {Outside(Obj(<<>>), d) : d \in BOOLEAN}
     \/ /\ value \in SchemaFiles
        /\ schemaInfo \in FirefoxInfos
        /\ remote = Outside(Obj(<<KV("version_added", Str("45"))>>), FALSE)
  /\ schema = Undefined
  /\ searchPath = Undefined
  /\ out = Undefined
  /\ out2 = Undefined
  /\ pc = "start"
  /\ revIdx = 0
  /\ tested = <<>>

\* schema.json = await processSchema({ config, value: schema.json, schemaInfo })
RunCompat ==
  /\ pc = "start"
  /\ out' = processSchema(mv, value, <<>>, schemaInfo)
  /\ pc' = "done"
  /\ UNCHANGED <<schema, value, mv, out2, schemaInfo, searchPath, remote, revIdx, tested>>

NextCompat == RunCompat
SpecCompat == InitCompat /\ [][NextCompat]_vars

-----------------------------------------------------------------------------
(* Claims about the compat data, checked under SpecCompat *)

\* The calls of the walk of the state (SpecCompat and SpecPaths).
WalkCalls == Calls(mv, value, <<>>, schemaInfo)

\* The values node.annotations holds under `key`, as a sequence: one entry
\* per annotation that has the key.
AnnotationValues(node, key) ==
  IF IsArray(Get(node, "annotations"))
  THEN LET with == SelectSeq(Get(node, "annotations").el, LAMBDA a : Has(a, key))
       IN [k \in 1..Len(with) |-> Get(with[k], key)]
  ELSE <<>>

OwnerIs(name) == Get(schemaInfo, "owner") = Str(name)

\* C15: the generation of compat data, for either owner, leaves a node that
\* has a version_added annotation with that one annotation, unchanged, and
\* gives a node that has none at most one; no node of the result has two.
C15_NoSecondVersionAdded ==
  pc = "done" =>
    /\ \A c \in WalkCalls :
         LET before == AnnotationValues(c.before, "version_added")
             after == AnnotationValues(c.after, "version_added")
         IN /\ Len(before) <= 1 => Len(after) <= 1
            /\ Len(before) = 1 => after = before
    /\ \A p \in Paths(out) : Len(AnnotationValues(At(out, p), "version_added")) <= 1

\* The function of a Firefox schema came with version_added 60 from its
\* annotation file and the compat data have a version_added for it: the
\* result has the mdn url of the compat data and the 60 only.
C15_Witness ==
  /\ pc = "done"
  /\ OwnerIs("firefox")
  /\ value \in CompatFiles
  /\ LET fn == Get(value.el[1], "functions").el[1]
         res == Get(out.el[1], "functions").el[1]
     IN /\ AnnotationValues(fn, "version_added") = <<Str("60")>>
        /\ Has(Get(Get(Get(Get(Get(remote.bcd, "ns"), "myFunction"), "__compat"),
                       "support"), "firefox"), "version_added")
        /\ AnnotationValues(res, "version_added") = <<Str("60")>>
        /\ AnnotationValues(res, "mdn_documentation_url") = <<Str("mdn/ns/myFunction")>>

\* The support statement of the browser compat data for the node at the
\* address refs, undefined when there is none.
BcdFirefox(refs) ==
  IF refs = <<"ns", "functions", "myFunction">>
    THEN Get(Get(Get(Get(Get(remote.bcd, "ns"), "myFunction"), "__compat"), "support"), "firefox")
  ELSE Undefined

IsNumeric(x) == ~isNaNInt(x)

\* The value C16 states for a Firefox version_added and a Thunderbird floor.
LargerOf(floor, firefox_version) ==
  IF /\ IsNumeric(floor)
     /\ \/ firefox_version = Bool(TRUE)
        \/ ~IsNumeric(firefox_version)
        \/ parseInt(firefox_version) < parseInt(floor)
  THEN floor
  ELSE firefox_version

\* C16: a node of a Firefox schema without a version_added annotation, for
\* which the compat data have a version_added, gets one version_added: the
\* floor of the schema when that is numeric and the Firefox value is true,
\* not numeric or smaller, the Firefox value otherwise; a numeric attached
\* value is not below a numeric floor.
C16_LargerVersion ==
  (pc = "done" /\ OwnerIs("firefox")) =>
    \A c \in WalkCalls :
      LET firefox == BcdFirefox(JoinRefs(c.pathElements))
          floor == Get(schemaInfo, "version_added")
          attached == AnnotationValues(c.after, "version_added")
      IN (/\ c.generated
          /\ Has(firefox, "version_added")
          /\ AnnotationValues(c.before, "version_added") = <<>>)
         => /\ attached = <<LargerOf(floor, Get(firefox, "version_added"))>>
            /\ (IsNumeric(attached[1]) /\ IsNumeric(floor))
                 => parseInt(attached[1]) >= parseInt(floor)

\* Firefox has the function since 45, the schema has the floor 78: the
\* function gets version_added 78.
C16_Witness ==
  /\ pc = "done"
  /\ OwnerIs("firefox")
  /\ value \in CompatFiles
  /\ Get(schemaInfo, "version_added") = Str("78")
  /\ BcdFirefox(<<"ns", "functions", "myFunction">>) = Obj(<<KV("version_added", Str("45"))>>)
  /\ AnnotationValues(Get(value.el[1], "functions").el[1], "version_added") = <<>>
  /\ AnnotationValues(Get(out.el[1], "functions").el[1], "version_added") = <<Str("78")>>

CompatKeys == {"version_added", "api_documentation_url", "mdn_documentation_url"}

ClaimedAnchor(c) ==
  LET params == IF IsArray(Get(c.before, "parameters"))
                THEN Get(c.before, "parameters").el ELSE <<>>
      kept == SelectSeq(params, LAMBDA e : Get(e, "name") # Str("callback"))
  IN <<toLowerCase(RefText(c.pathElements[3].ref))>> \o
     [k \in 1..Len(kept) |-> toLowerCase(Get(kept[k], "name").s)]

-----------------------------------------------------------------------------
(* Claims about the addresses of the walk, checked under SpecPaths *)

\* d is the call for a direct child of the call c.
ChildCall(c, d) ==
  /\ Len(d.fullPath) = Len(c.pathElements) + 1
  /\ SubSeq(d.fullPath, 1, Len(c.pathElements)) = c.pathElements
LastSegment(d) == d.fullPath[Len(d.fullPath)]

IdentityFields == <<"name", "id", "namespace", "$extend">>

\* The address segment C11 states for element e at index idx of the filtered
\* array at path.
ClaimedSegment(path, e, idx) ==
  IF LastRef(path) \in {Str("choices"), Str("parameters")} THEN Num(idx)
  ELSE IF LastRef(path) = Str("enum") THEN e
  ELSE LET present == {k \in 1..Len(IdentityFields) : Has(e, IdentityFields[k])}
       IN IF present = {} THEN Num(idx)
          ELSE Get(e, IdentityFields[Min(present)])

\* C11 (as claimed): an element of an array is addressed by its index in the
\* filtered array under choices and parameters, by its value under enum, and
\* elsewhere by the first of name, id, namespace, $extend it has, or by its
\* index when it has none.
C11_ArrayElementSegment ==
  pc = "done" =>
    \A c \in WalkCalls :
      IsArray(c.value) =>
        LET kept == SelectSeq(c.value.el, KeptAsClaimed)
        IN \A k \in 1..Len(kept) :
             \E d \in WalkCalls :
               /\ ChildCall(c, d)
               /\ d.value = kept[k]
               /\ LastSegment(d).ref = ClaimedSegment(c.fullPath, kept[k], k - 1)

\* The same statement for the elements that have at most one identity field.
C11_SingleIdentity ==
  pc = "done" =>
    \A c \in WalkCalls :
      IsArray(c.value) =>
        LET kept == SelectSeq(c.value.el, KeptAsClaimed)
        IN \A k \in 1..Len(kept) :
             Cardinality({f \in 1..Len(IdentityFields) : Has(kept[k], IdentityFields[f])}) <= 1 =>
               \E d \in WalkCalls :
                 /\ ChildCall(c, d)
                 /\ d.value = kept[k]
                 /\ LastSegment(d).ref = ClaimedSegment(c.fullPath, kept[k], k - 1)

Groups == {"functions", "events", "types", "properties"}
Holders == {"returns", "items", "additionalProperties"}
IsSynthetic(pe) == pe.ref = Str("0") /\ pe.type = "idx"

RECURSIVE Kind(_)
\* What the node at an address is when the address is read from the
\* namespace entry on: an "element" (the namespace entry, a member of a
\* group, the inserted index below a holder), a "group" (functions, events,
\* types, properties of an element), a "holder" (returns, items,
\* additionalProperties of an element), or "other".
Kind(path) ==
  IF Len(path) = 1 THEN "element"
  ELSE LET above == Kind(SubSeq(path, 1, Len(path) - 1))
           last == path[Len(path)]
       IN CASE above = "element" /\ last.type = "property" /\ last.ref \in {Str(g) : g \in Groups}
                 -> "group"
            [] above = "element" /\ last.type = "property" /\ last.ref \in {Str(h) : h \in Holders}
                 -> "holder"
            [] above = "group" -> "element"
            [] above = "holder" /\ IsSynthetic(last) -> "element"
            [] OTHER -> "other"

\* C12: elements reached through functions/events/types/properties groups
\* have an odd-length address and the groups an even-length one; an object at
\* an even-length address ending in returns, items or additionalProperties
\* gets the index "0" inserted before the keys of its children, and the
\* groups and elements below it are even and odd again.
C12_AddressParity ==
  pc = "done" =>
    \A c \in WalkCalls :
      /\ (Len(c.fullPath) > 0 /\ Kind(c.fullPath) = "element" /\ c.value.t = "obj")
           => isOdd(Len(c.fullPath))
      /\ (Len(c.fullPath) > 0 /\ Kind(c.fullPath) = "group") => ~isOdd(Len(c.fullPath))
      /\ (/\ c.value.t = "obj"
          /\ ~isOdd(Len(c.fullPath))
          /\ LastRef(c.fullPath) \in {Str(h) : h \in Holders})
           => /\ Len(c.pathElements) = Len(c.fullPath) + 1
              /\ IsSynthetic(c.pathElements[Len(c.pathElements)])
              /\ \A d \in WalkCalls :
                   (/\ Len(d.fullPath) > Len(c.fullPath)
                    /\ SubSeq(d.fullPath, 1, Len(c.fullPath)) = c.fullPath)
                   => /\ Len(d.fullPath) >= Len(c.fullPath) + 2
                      /\ IsSynthetic(d.fullPath[Len(c.fullPath) + 1])
                      /\ Kind(d.fullPath) \in {"element", "group", "holder"} =>
                           (isOdd(Len(d.fullPath)) <=> Kind(d.fullPath) = "element")

\* The walk reached the property p below the returns of a function: its
\* address has the inserted index and seven segments.
C12_Witness ==
  /\ pc = "done"
  /\ \E d \in WalkCalls :
       /\ Len(d.fullPath) = 7
       /\ JoinRefs(d.fullPath) = <<"ns", "functions", "get", "returns", "0", "properties", "p">>
       /\ Kind(d.fullPath) = "element"

-----------------------------------------------------------------------------
(* mergeAnnotations and expandAnnotations of the annotation merger.  Both
   change their arguments in place; here each returns the changed schema
   (or annotation) node, or the error it throws. *)

\* JSON null
Null == [t |-> "null"]
\* An error thrown out of the merge: nothing of the run's result is kept.
Thrown(msg) == [t |-> "thrown", msg |-> msg]
IsThrown(x) == x.t = "thrown"

\* typeof x
typeof(x) ==
  CASE x.t \in {"str", "text"} -> "string"
    [] x.t = "num" -> "number"
    [] x.t = "bool" -> "boolean"
    [] x.t = "undef" -> "undefined"
    [] OTHER -> "object"

\* !x, which is also true of null
falsy(x) == x.t = "null" \/ ~Truthy(x)

\* Whether Number(x) of a primitive is a number and not NaN.  The numeric
\* texts among the inputs are "2" and "3"; the empty text converts to 0.
IsNumber(x) == x.t \in {"num", "bool"} \/ (x.t = "str" /\ x.s \in {"2", "3", ""})

\* Number(x), as the == comparison of primitives of different types converts
\* them.
ToNumber(x) ==
  CASE x.t = "num" -> x.n
    [] x.t = "bool" -> IF x.b THEN 1 ELSE 0
    [] x.t = "str" /\ x.s = "2" -> 2
    [] x.t = "str" /\ x.s = "3" -> 3
    [] OTHER -> 0

\* a == b of a value of the schema tree and a value of the annotation tree:
\* null and undefined equal each other and nothing else, two objects are
\* never the same object, an object against a primitive compares its text
\* (none of the texts of the inputs), primitives of one type compare by value
\* and primitives of different types as numbers.
LooseEq(a, b) ==
  CASE a.t \in {"null", "undef"} \/ b.t \in {"null", "undef"} ->
         a.t \in {"null", "undef"} /\ b.t \in {"null", "undef"}
    [] a.t \in {"obj", "arr"} \/ b.t \in {"obj", "arr"} -> FALSE
    [] typeof(a) = typeof(b) -> a = b
    [] OTHER -> IsNumber(a) /\ IsNumber(b) /\ ToNumber(a) = ToNumber(b)

\* x.k of any value: undefined for a primitive and for an array (the keys
\* read are no array methods); reading a property of null throws, which the
\* callers test before they read.
Prop(x, k) == IF x.t = "obj" THEN Get(x, k) ELSE Undefined

\* aObj.code.endsWith(ext) for the file names of the inputs.
codeEndsWith(code, ext) ==
  \/ ext = ".js" /\ code \in {"a.js", "gone.js"}
  \/ ext = ".mjs" /\ code = "b.mjs"
  \/ ext = ".css" /\ code = "c.css"
  \/ ext = ".json" /\ code = "d.json"

\* The three `if`s that set aObj.type from the file name (lines 704-706).
inferType(aObj, code) ==
  LET js == IF codeEndsWith(code, ".js") \/ codeEndsWith(code, ".mjs")
            THEN Put(aObj, "type", Str("JavaScript")) ELSE aObj
      css == IF codeEndsWith(code, ".css") THEN Put(js, "type", Str("CSS")) ELSE js
  IN IF codeEndsWith(code, ".json") THEN Put(css, "type", Str("JSON")) ELSE css

RECURSIVE splitLines(_, _)
\* code.split("\n") of a text given as its characters; cur is the line read
\* so far.
splitLines(chars, cur) ==
  IF chars = <<>> THEN <<Text(cur)>>
  ELSE IF Head(chars) = "\n" THEN <<Text(cur)>> \o splitLines(Tail(chars), <<>>)
  ELSE splitLines(Tail(chars), Append(cur, Head(chars)))

\* code.replaceAll("\r", "").split("\n")
codeLines(chars) == Arr(splitLines(SelectSeq(chars, LAMBDA c : c # "\r"), <<>>))

\* One round of the loop of lines 698-710 for the list element aObj; files
\* maps the names of the readable include files to their characters.
expandCode(aObj, files) ==
  IF aObj.t = "null" THEN Thrown("TypeError")
  ELSE LET code == Prop(aObj, "code") IN
    IF falsy(code) \/ IsArray(code) THEN aObj
    ELSE IF code.t # "str" THEN Thrown("TypeError")
    ELSE IF code.s \notin DOMAIN files THEN Thrown("ENOENT")
    ELSE Put(IF falsy(Get(aObj, "type")) THEN inferType(aObj, code.s) ELSE aObj,
             "code", codeLines(files[code.s]))

\* The rounds of a loop over a list, each with its result xs[i]: the list of
\* the results, or the first error, which ends the loop.
Collect(xs) ==
  LET idx == {i \in DOMAIN xs : IsThrown(xs[i])}
  IN IF idx = {} THEN Arr(xs) ELSE xs[Min(idx)]

\* o[k] = v, unless computing v threw.
PutOrThrown(o, k, v) == IF IsThrown(v) THEN v ELSE Put(o, k, v)

\* case "annotations" of expandAnnotations: the loop over annotation[aEntry],
\* which throws when that value cannot be iterated (a text can: its
\* characters have no code).
expandList(annotation, files) ==
  LET list == Get(annotation, "annotations") IN
    IF typeof(list) = "string" THEN annotation
    ELSE IF ~IsArray(list) THEN Thrown("TypeError")
    ELSE PutOrThrown(annotation, "annotations",
                     Collect([i \in 1..Len(list.el) |-> expandCode(list.el[i], files)]))

\* One round of the loop of lines 713-717 for the enum value e.
expandEnum(e, files) ==
  IF e.t = "null" THEN Thrown("TypeError")
  ELSE IF falsy(Prop(e, "annotations")) THEN e
  ELSE expandList(e, files)

\* The object o with the values vs.el in the place of its own, key by key,
\* unless vs is an error.
withValues(o, vs) ==
  IF IsThrown(vs) THEN vs
  ELSE Obj([i \in 1..Len(o.kv) |-> KV(o.kv[i].k, vs.el[i])])

\* case "enums" of expandAnnotations: Object.keys of a number or a boolean is
\* empty, the characters of a text have no annotations.
expandEnums(annotation, files) ==
  LET enums == Get(annotation, "enums") IN
    CASE enums.t = "null" -> Thrown("TypeError")
      [] enums.t = "obj" ->
           PutOrThrown(annotation, "enums",
             withValues(enums,
               Collect([i \in 1..Len(enums.kv) |-> expandEnum(enums.kv[i].v, files)])))
      [] enums.t = "arr" ->
           PutOrThrown(annotation, "enums",
             Collect([i \in 1..Len(enums.el) |-> expandEnum(enums.el[i], files)]))
      [] OTHER -> annotation

\* expandAnnotations(aEntry, annotation, basePath): the annotation object
\* after the call, or what the call throws.
expandAnnotations(aEntry, annotation, files) ==
  CASE aEntry = "annotations" -> expandList(annotation, files)
    [] aEntry = "enums" -> expandEnums(annotation, files)
    [] OTHER -> annotation

\* The keys that identify an entry of an array (lines 648-651).
identityKeys == {"namespace", "$extend", "name", "id"}

\* The first filter of lines 647-652: e agrees with the annotation entry in
\* one of the identity keys the annotation entry has.
identityMatch(e, aEntry) ==
  \E k \in identityKeys :
    Truthy(Prop(aEntry, k)) /\ LooseEq(Prop(e, k), Prop(aEntry, k))

\* A variant of the second filter that ignores the manifest bounds.
boundMatchAny(e, aEntry) == TRUE

\* The second filter of lines 652-655: a manifest bound of the annotation
\* entry is the bound of e.
boundMatch(e, aEntry) ==
  \A k \in {"min_manifest_version", "max_manifest_version"} :
    falsy(Prop(aEntry, k)) \/ LooseEq(Prop(aEntry, k), Prop(e, k))

\* let sEntries = schema.filter(...).filter(...), as the positions in schema
sEntries(sch, aEntry) ==
  {i \in 1..Len(sch.el) :
     identityMatch(sch.el[i], aEntry) /\ boundMatch(sch.el[i], aEntry)}

\* The filters read a property of null: of the annotation entry, or of a
\* schema entry once the annotation entry has an identity key.
readsNull(sch, aEntry) ==
  \/ aEntry.t = "null"
  \/ /\ \E k \in identityKeys : Truthy(Prop(aEntry, k))
     /\ \E i \in 1..Len(sch.el) : sch.el[i].t = "null"

\* x.length of an array; undefined for the objects, numbers and booleans
\* that may stand under `choices` (no text does in the inputs).
lengthOf(x) == IF IsArray(x) THEN Num(Len(x.el)) ELSE Undefined

\* x[i] for the position i of a loop that counts from 1: undefined beyond
\* the end of an array and for a value that is no array.
elementAt(x, i) == IF IsArray(x) /\ i \in 1..Len(x.el) THEN x.el[i] ELSE Undefined

\* A variant of the size test of line 672 that lets every pair pass.
choicesDifferNever(sc, ac) == FALSE

\* schema[aEntry].length != annotation[aEntry].length
choicesDiffer(sc, ac) == lengthOf(sc) # lengthOf(ac)

RECURSIVE mergeAnnotations(_, _, _)

\* The body of the loop of line 643 for one annotation entry.
mergeArrayEntry(sch, aEntry, files) ==
  IF readsNull(sch, aEntry) THEN Thrown("TypeError")
  ELSE IF sEntries(sch, aEntry) = {} THEN Thrown("Unmatched entry")
  ELSE Collect([i \in 1..Len(sch.el) |->
                  IF i \in sEntries(sch, aEntry)
                  THEN mergeAnnotations(sch.el[i], aEntry, files)
                  ELSE sch.el[i]])

RECURSIVE mergeArrayEntries(_, _, _)
\* for (let aEntry of annotation) { ... } of the array branch
mergeArrayEntries(sch, entries, files) ==
  IF entries = <<>> \/ IsThrown(sch) THEN sch
  ELSE mergeArrayEntries(mergeArrayEntry(sch, Head(entries), files), Tail(entries), files)

\* Lines 672-677: `choices` of both sides, matched by position.  The loop
\* runs to annotation.choices.length, which is undefined for a value that is
\* no array.
mergeChoices(sch, sc, ac, files) ==
  IF choicesDiffer(sc, ac) THEN Thrown("Choices array with non-matching sizes: ")
  ELSE IF ~IsArray(ac) THEN sch
  ELSE PutOrThrown(sch, "choices",
         Collect([i \in 1..Len(ac.el) |->
                    mergeAnnotations(elementAt(sc, i), ac.el[i], files)]))

\* schema[aEntry] = annotation[aEntry] of line 668, after expandAnnotations
\* changed the annotation to expanded, or threw.
assignExpanded(sch, aEntry, expanded) ==
  IF IsThrown(expanded) THEN expanded ELSE Put(sch, aEntry, Get(expanded, aEntry))

\* The body of the loop of line 665 for the key aEntry of the annotation
\* (no key of the inputs is a name that every object inherits).
mergeKey(sch, annotation, aEntry, files) ==
  IF sch.t = "null" THEN Thrown("TypeError")
  ELSE IF falsy(Get(sch, aEntry))
  THEN assignExpanded(sch, aEntry, expandAnnotations(aEntry, annotation, files))
  ELSE IF aEntry = "choices"
  THEN mergeChoices(sch, Get(sch, aEntry), Get(annotation, aEntry), files)
  ELSE PutOrThrown(sch, aEntry,
                   mergeAnnotations(Get(sch, aEntry), Get(annotation, aEntry), files))

RECURSIVE mergeKeys(_, _, _, _)
\* for (const aEntry of Object.keys(annotation)) { ... } of the object branch
mergeKeys(sch, annotation, keys, files) ==
  IF keys = <<>> \/ IsThrown(sch) THEN sch
  ELSE mergeKeys(mergeKey(sch, annotation, Head(keys), files), annotation, Tail(keys), files)

\* mergeAnnotations(schema, annotation, basePath): the schema node after the
\* call, or what the call throws.  Two primitives of one type are left alone.
mergeAnnotations(sch, annotation, files) ==
  IF typeof(sch) # typeof(annotation) \/ IsArray(sch) # IsArray(annotation)
  THEN Thrown("Unexpected type mismatch between schema entry and annotation entry")
  ELSE IF IsArray(annotation) THEN mergeArrayEntries(sch, annotation.el, files)
  ELSE IF typeof(annotation) = "object"
  THEN IF annotation.t = "null" THEN Thrown("TypeError")
       ELSE mergeKeys(sch, annotation, Keys(annotation), files)
  ELSE sch

-----------------------------------------------------------------------------
(* readAnnotationFiles: one annotation file is merged into the schema file of
   the same name.  `schema` is schema.json before the call, `value` the
   parsed annotation file, `out` schema.json after the call or the error that
   ends the run, remote.includes the files that annotations can include. *)

MaxAnnotationEntries == 2

\* The include files next to the annotation file, as their characters;
\* "gone.js" is named by an annotation and is not there.
IncludeFiles ==
  [f \in {"a.js", "b.mjs"} |->
     IF f = "a.js" THEN <<"x", "\r", "\n", "y">> ELSE <<"z", "\n">>]

Described(d) == KV("description", Str(d))

\* Arrays of schema entries as they stand in a schema file.
SchemaArrays ==
  { Arr(<<Obj(<<KV("name", Str("a")), KV("type", Str("function"))>>),
          Obj(<<KV("id", Str("B")), KV("type", Str("object"))>>)>>),
    Arr(<<Obj(<<KV("name", Str("a")), KV("max_manifest_version", Num(2)),
                KV("choices", Arr(<<Obj(<<Typed("string")>>), Obj(<<Typed("integer")>>)>>))>>),
          Obj(<<KV("name", Str("a")), KV("min_manifest_version", Num(3)),
                KV("choices", Arr(<<Obj(<<Typed("string")>>)>>))>>)>>),
    Arr(<<Obj(<<KV("namespace", Str("ns")), Described(""),
                KV("functions",
                   Arr(<<Obj(<<KV("name", Str("a"))>>),
                         Obj(<<KV("name", Str("a")),
                               KV("min_manifest_version", Num(3))>>)>>))>>)>>),
    Arr(<<Obj(<<KV("name", Str("a")), KV("type", Str("function"))>>), Null>>),
    Arr(<<Obj(<<KV("name", Str("a")),
                KV("annotations", Arr(<<Annotation("note", Str("n"))>>))>>)>>),
    Arr(<<Obj(<<KV("namespace", Str("ns"))>>),
          Obj(<<KV("name", Str("a")), KV("choices", Obj(<<KV("x", Num(1))>>))>>)>>),
    Arr(<<Obj(<<KV("name", Str("a")), KV("type", Str("function"))>>)>>) }

\* Entries of the arrays of an annotation file.
AnnotationEntries ==
  { Obj(<<KV("name", Str("a")), Described("d")>>),
    Obj(<<KV("name", Str("a")), KV("id", Str("B")), Described("d")>>),
    Obj(<<KV("name", Str("a")), KV("max_manifest_version", Num(2)),
          KV("choices", Arr(<<Obj(<<Described("c1")>>), Obj(<<Described("c2")>>)>>))>>),
    Obj(<<KV("name", Str("a")), KV("choices", Arr(<<Obj(<<Described("c")>>)>>))>>),
    Obj(<<KV("namespace", Str("ns")), Described("d"),
          KV("functions",
             Arr(<<Obj(<<KV("name", Str("a")), KV("min_manifest_version", Str("3")),
                         KV("annotations",
                            Arr(<<Annotation("code", Str("a.js")),
                                  Annotation("note", Str("n"))>>))>>)>>))>>),
    Obj(<<KV("name", Str("a")),
          KV("annotations", Arr(<<Annotation("code", Str("gone.js"))>>))>>),
    Obj(<<KV("name", Str("a")), KV("annotations", Annotation("note", Str("n")))>>),
    Obj(<<KV("id", Str("zz")), Described("d")>>),
    Obj(<<KV("name", Str("a")), KV("type", Obj(<<KV("x", Num(1))>>))>>),
    Obj(<<KV("id", Str("B")), KV("type", Str("string")),
          KV("enums",
             Obj(<<KV("v", Obj(<<KV("annotations",
                                    Arr(<<Obj(<<KV("code", Str("b.mjs")),
                                                KV("type", Str("text"))>>)>>))>>))>>))>>),
    Obj(<<KV("namespace", Str("ns")), KV("name", Str("a")), Described("d")>>) }

\* The parsed annotation files: arrays of up to n entries, and one file that
\* holds an object where the schema file holds an array.
AnnotationFiles(n) ==
  {Arr(es) : es \in UNION {[1..k -> AnnotationEntries] : k \in 1..n}}
    \cup {Obj(<<Described("d")>>)}

\* The schema files: the arrays above, and one that holds an object.
SchemaJsons == SchemaArrays \cup {Obj(<<KV("namespace", Str("ns"))>>)}

InitAnnotations ==
  /\ schema \in SchemaJsons
  /\ value \in AnnotationFiles(MaxAnnotationEntries)
  /\ remote = [bcd |-> Undefined, log |-> <<>>, files |-> <<>>, versions |-> <<>>,
               docs |-> FALSE, includes |-> IncludeFiles]
  /\ mv = 2
  /\ out = Undefined
  /\ out2 = Undefined
  /\ pc = "start"
  /\ schemaInfo = Undefined
  /\ searchPath = Undefined
  /\ revIdx = 0
  /\ tested = <<>>

\* await mergeAnnotations(schema.json, json, file.path) returns
MergeFile ==
  /\ pc = "start"
  /\ ~IsThrown(mergeAnnotations(schema, value, remote.includes))
  /\ out' = mergeAnnotations(schema, value, remote.includes)
  /\ pc' = "merged"
  /\ UNCHANGED <<schema, value, mv, out2, schemaInfo, searchPath, remote, revIdx, tested>>

\* await mergeAnnotations(schema.json, json, file.path) throws: the error
\* leaves main() and the run ends.
MergeThrows ==
  /\ pc = "start"
  /\ IsThrown(mergeAnnotations(schema, value, remote.includes))
  /\ out' = mergeAnnotations(schema, value, remote.includes)
  /\ pc' = "aborted"
  /\ UNCHANGED <<schema, value, mv, out2, schemaInfo, searchPath, remote, revIdx, tested>>

NextAnnotations == MergeFile \/ MergeThrows
SpecAnnotations == InitAnnotations /\ [][NextAnnotations]_vars

-----------------------------------------------------------------------------
(* The steps of one merge: every call of mergeAnnotations, every round of the
   loop over an annotation array and every round of the loop over the keys of
   an annotation object, each with the schema node as it is when the step
   begins. *)

CallStep(s, a) == [step |-> "call", schema |-> s, annotation |-> a, key |-> ""]
EntryStep(s, a) == [step |-> "entry", schema |-> s, annotation |-> a, key |-> ""]
KeyStep(s, a, k) == [step |-> "key", schema |-> s, annotation |-> a, key |-> k]

RECURSIVE MergeSteps(_, _, _)

\* The steps of the round for the annotation entry aEntry, which begins with
\* the schema array as before (nothing when an earlier round threw).
EntrySteps(before, aEntry, files) ==
  IF IsThrown(before) THEN {}
  ELSE {EntryStep(before, aEntry)} \cup
       IF readsNull(before, aEntry) THEN {}
       ELSE UNION {MergeSteps(before.el[i], aEntry, files) : i \in sEntries(before, aEntry)}

\* The steps of the round for the key k of the annotation object a, which
\* begins with the schema object as before.
KeySteps(before, a, k, files) ==
  IF IsThrown(before) THEN {}
  ELSE {KeyStep(before, a, k)} \cup
       IF before.t = "null" \/ falsy(Get(before, k)) THEN {}
       ELSE IF k = "choices"
       THEN IF IsArray(Get(before, k)) /\ IsArray(Get(a, k))
               /\ Len(Get(before, k).el) = Len(Get(a, k).el)
            THEN UNION {MergeSteps(Get(before, k).el[i], Get(a, k).el[i], files) :
                          i \in 1..Len(Get(a, k).el)}
            ELSE {}
       ELSE MergeSteps(Get(before, k), Get(a, k), files)

MergeSteps(s, a, files) ==
  {CallStep(s, a)} \cup
  IF typeof(s) # typeof(a) \/ IsArray(s) # IsArray(a) THEN {}
  ELSE IF IsArray(a)
  THEN UNION {EntrySteps(mergeArrayEntries(s, SubSeq(a.el, 1, j - 1), files), a.el[j], files) :
                j \in 1..Len(a.el)}
  ELSE IF a.t = "obj"
  THEN UNION {KeySteps(mergeKeys(s, a, SubSeq(Keys(a), 1, j - 1), files), a, Keys(a)[j], files) :
                j \in 1..Len(Keys(a))}
  ELSE {}

\* The steps of the merge of the annotation file into the schema file.
Steps == MergeSteps(schema, value, remote.includes)

-----------------------------------------------------------------------------
(* Claims about the errors of the annotation merger, specification
   SpecAnnotations. *)

\* The two nodes differ in typeof or in being an array.
TypesDiffer(s, a) == typeof(s) # typeof(a) \/ IsArray(s) # IsArray(a)

\* `choices` stands on both sides of a round over the keys of an object.
ChoicesOnBoth(st) ==
  /\ st.step = "key"
  /\ st.key = "choices"
  /\ st.schema.t = "obj"
  /\ ~falsy(Get(st.schema, "choices"))

\* First case: a schema node and the annotation node merged into it differ in
\* kind; the two values of `choices` are such a pair as well.
Mismatched(st) ==
  \/ st.step = "call" /\ TypesDiffer(st.schema, st.annotation)
  \/ /\ ChoicesOnBoth(st)
     /\ TypesDiffer(Get(st.schema, "choices"), Get(st.annotation, "choices"))

\* Second case: no entry of the schema array passes the two filters for the
\* annotation entry.
Unmatched(st) ==
  /\ st.step = "entry"
  /\ ~readsNull(st.schema, st.annotation)
  /\ \A i \in 1..Len(st.schema.el) :
       ~(identityMatch(st.schema.el[i], st.annotation)
         /\ boundMatch(st.schema.el[i], st.annotation))

\* Third case: `choices` holds arrays of different length on the two sides.
ChoicesLengthsDiffer(st) ==
  /\ ChoicesOnBoth(st)
  /\ IsArray(Get(st.schema, "choices"))
  /\ IsArray(Get(st.annotation, "choices"))
  /\ Len(Get(st.schema, "choices").el) # Len(Get(st.annotation, "choices").el)

\* A property of null is read: by the filters of an array round, by
\* Object.keys(annotation), or by schema[aEntry].
NullRead(st) ==
  \/ st.step = "entry" /\ readsNull(st.schema, st.annotation)
  \/ /\ st.step = "call"
     /\ ~TypesDiffer(st.schema, st.annotation)
     /\ st.annotation.t = "null"
  \/ st.step = "key" /\ st.schema.t = "null"

\* The key is new to the schema node and expandAnnotations fails on its
\* value: an `annotations` value that is neither a list nor a text, a `code`
\* that is neither a text nor a list, an include file that cannot be read.
ExpansionFails(st) ==
  /\ st.step = "key"
  /\ st.schema.t = "obj"
  /\ falsy(Get(st.schema, st.key))
  /\ IsThrown(expandAnnotations(st.key, st.annotation, remote.includes))

Finished == pc \in {"merged", "aborted"}

\* C19 as stated: the merge throws, and the run ends, exactly when a schema
\* node and its annotation node differ in typeof or in being an array, an
\* annotation array entry matches no schema entry, or `choices` holds arrays
\* of different length on both sides.
C19_ThrowsInThreeCases ==
  Finished =>
    /\ pc = "aborted" <=> IsThrown(out)
    /\ IsThrown(out) <=>
         \E st \in Steps : Mismatched(st) \/ Unmatched(st) \/ ChoicesLengthsDiffer(st)

\* C19, amended: each of the three cases throws and ends the run; the merge
\* also throws when it reads a property of null and when expandAnnotations
\* fails on a key that is new to the schema; it throws in no other case.
C19_ThrowsInFiveCases ==
  Finished =>
    /\ pc = "aborted" <=> IsThrown(out)
    /\ \A st \in Steps :
         (Mismatched(st) \/ Unmatched(st) \/ ChoicesLengthsDiffer(st)) => IsThrown(out)
    /\ IsThrown(out) <=>
         \E st \in Steps :
           \/ Mismatched(st) \/ Unmatched(st) \/ ChoicesLengthsDiffer(st)
           \/ NullRead(st) \/ ExpansionFails(st)

\* A run ended by `choices` of different length below a matched array entry,
\* after an earlier annotation entry had been merged.
C19_Witness ==
  /\ pc = "aborted"
  /\ IsThrown(out)
  /\ \E st \in Steps : ChoicesLengthsDiffer(st)
  /\ \E st \in Steps : st.step = "entry" /\ st.schema # schema

-----------------------------------------------------------------------------
(* Claims about the matching of annotation array entries, specification
   SpecAnnotations. *)

KeyOrder == <<"namespace", "$extend", "name", "id">>
ManifestBounds == {"min_manifest_version", "max_manifest_version"}

\* The positions of the schema array s whose entry has the value of the
\* annotation entry a under the identity key k.
MatchesOf(s, a, k) ==
  {i \in 1..Len(s.el) :
     Truthy(Prop(a, k)) /\ LooseEq(Prop(s.el[i], k), Prop(a, k))}

\* The matches of the first identity key, in the order of KeyOrder, that
\* gives any.
FirstKeyMatches(s, a) ==
  LET giving == {n \in 1..Len(KeyOrder) : MatchesOf(s, a, KeyOrder[n]) # {}}
  IN IF giving = {} THEN {} ELSE MatchesOf(s, a, KeyOrder[Min(giving)])

\* The matches of all identity keys together.
AnyKeyMatches(s, a) == UNION {MatchesOf(s, a, KeyOrder[n]) : n \in 1..Len(KeyOrder)}

\* The schema entry e has the manifest bounds that the annotation entry a has.
SameBounds(e, a) ==
  \A b \in ManifestBounds : Truthy(Prop(a, b)) => LooseEq(Prop(e, b), Prop(a, b))

\* The rounds over annotation array entries that ran to their end.
EntryRounds ==
  {st \in Steps :
     /\ st.step = "entry"
     /\ ~IsThrown(mergeArrayEntry(st.schema, st.annotation, remote.includes))}

\* After the round st exactly the entries at the positions into are the
\* merge of the annotation entry into what they were, and the others are
\* what they were.
MergedInto(st, into) ==
  mergeArrayEntry(st.schema, st.annotation, remote.includes) =
    Arr([i \in 1..Len(st.schema.el) |->
           IF i \in into
           THEN mergeAnnotations(st.schema.el[i], st.annotation, remote.includes)
           ELSE st.schema.el[i]])

-----------------------------------------------------------------------------
(* The annotation merger on objects with identity.  A heap holds the sequence
   of the objects and arrays that exist; the address of one is its position.
   The members of an object or array of the heap are scalars or references.
   mergeAnnotations changes the schema and the annotation objects where they
   are: what it assigns is the reference, not a copy. *)

Ref(a) == [t |-> "ref", a |-> a]
\* A heap with the given objects, and the heap with nothing in it.
Heap(cells) == [t |-> "heap", cells |-> cells]
EmptyHeap == Heap(<<>>)
Stored(h, val) == [h |-> h, val |-> val]

\* The object or array a reference points to; a scalar is itself.
nodeOf(h, x) == IF x.t = "ref" THEN h.cells[x.a] ELSE x

\* The values of an object or the elements of an array, as Object.keys
\* reaches them; nothing for a scalar.
membersOf(n) ==
  CASE n.t = "obj" -> [i \in 1..Len(n.kv) |-> n.kv[i].v]
    [] n.t = "arr" -> n.el
    [] OTHER -> <<>>

RECURSIVE Size(_)
RECURSIVE SizeAll(_)
\* The number of objects and arrays in the JSON values vs.
SizeAll(vs) == IF vs = <<>> THEN 0 ELSE Size(Head(vs)) + SizeAll(Tail(vs))
\* The number of objects and arrays in the JSON value v.
Size(v) == IF v.t \in {"obj", "arr"} THEN 1 + SizeAll(membersOf(v)) ELSE 0

\* What stands in an object or array of the heap for its i-th member, when
\* the objects of the members vs are created one after the other from the
\* address base + 1 on, each after the objects it holds: a scalar, or the
\* reference to the member.
memberAt(vs, i, base) ==
  IF vs[i].t \in {"obj", "arr"} THEN Ref(base + SizeAll(SubSeq(vs, 1, i))) ELSE vs[i]

RECURSIVE cellsOf(_, _)
RECURSIVE cellsOfAll(_, _)
\* The objects created for the members vs, from the address base + 1 on.
cellsOfAll(vs, base) ==
  IF vs = <<>> THEN <<>>
  ELSE cellsOf(Head(vs), base) \o cellsOfAll(Tail(vs), base + Size(Head(vs)))

\* The objects created for the JSON value v, from the address base + 1 on;
\* the object for v itself is the last.
cellsOf(v, base) ==
  CASE v.t = "arr" ->
         Append(cellsOfAll(v.el, base),
                Arr([i \in 1..Len(v.el) |-> memberAt(v.el, i, base)]))
    [] v.t = "obj" ->
         Append(cellsOfAll(membersOf(v), base),
                Obj([i \in 1..Len(v.kv) |-> KV(v.kv[i].k, memberAt(membersOf(v), i, base))]))
    [] OTHER -> <<>>

\* jsonUtils.parse(text): every object and array of the text becomes a new
\* object of the heap; the result is the new heap and the parsed value.
parse(h, v) ==
  Stored(Heap(h.cells \o cellsOf(v, Len(h.cells))),
         IF v.t \in {"obj", "arr"} THEN Ref(Len(h.cells) + Size(v)) ELSE v)

RECURSIVE stringify(_, _)
\* The JSON value that x stands for in the heap h, as JSON.stringify and the
\* file writer see it.
stringify(h, x) ==
  CASE x.t # "ref" -> x
    [] x.t = "ref" /\ h.cells[x.a].t = "arr" ->
         Arr([i \in 1..Len(h.cells[x.a].el) |-> stringify(h, h.cells[x.a].el[i])])
    [] OTHER ->
         Obj([i \in 1..Len(h.cells[x.a].kv) |->
                KV(h.cells[x.a].kv[i].k, stringify(h, h.cells[x.a].kv[i].v))])

\* x[k] = v in the heap, for a reference x to an object.
setProp(h, x, k, v) == Heap([h.cells EXCEPT ![x.a] = Put(h.cells[x.a], k, v)])

\* One round of the loop of lines 698-710 on the heap: aObj.type and
\* aObj.code are set in the annotation object itself, the lines are a new
\* array.
expandCodeInPlace(h, aObj, files) ==
  IF IsThrown(h) THEN h
  ELSE IF aObj.t = "null" THEN Thrown("TypeError")
  ELSE IF falsy(Prop(nodeOf(h, aObj), "code")) \/ IsArray(nodeOf(h, Prop(nodeOf(h, aObj), "code")))
  THEN h
  ELSE IF Prop(nodeOf(h, aObj), "code").t # "str" THEN Thrown("TypeError")
  ELSE IF Prop(nodeOf(h, aObj), "code").s \notin DOMAIN files THEN Thrown("ENOENT")
  ELSE Heap(Append(
         [h.cells EXCEPT ![aObj.a] =
            Put(IF falsy(Get(h.cells[aObj.a], "type"))
                THEN inferType(h.cells[aObj.a], Get(h.cells[aObj.a], "code").s)
                ELSE h.cells[aObj.a],
                "code", Ref(Len(h.cells) + 1))],
         codeLines(files[Get(h.cells[aObj.a], "code").s])))

RECURSIVE expandEach(_, _, _)
\* for (const aObj of list) { ... }
expandEach(h, list, files) ==
  IF list = <<>> \/ IsThrown(h) THEN h
  ELSE expandEach(expandCodeInPlace(h, Head(list), files), Tail(list), files)

\* case "annotations" of expandAnnotations for the annotation object at a.
expandListInPlace(h, a, files) ==
  IF IsThrown(h) THEN h
  ELSE IF typeof(Get(h.cells[a.a], "annotations")) = "string" THEN h
  ELSE IF ~IsArray(nodeOf(h, Get(h.cells[a.a], "annotations"))) THEN Thrown("TypeError")
  ELSE expandEach(h, nodeOf(h, Get(h.cells[a.a], "annotations")).el, files)

\* One round of the loop of lines 713-717 for the enum value e.
expandEnumInPlace(h, e, files) ==
  IF IsThrown(h) THEN h
  ELSE IF e.t = "null" THEN Thrown("TypeError")
  ELSE IF falsy(Prop(nodeOf(h, e), "annotations")) THEN h
  ELSE expandListInPlace(h, e, files)

RECURSIVE expandEnumsEach(_, _, _)
expandEnumsEach(h, es, files) ==
  IF es = <<>> \/ IsThrown(h) THEN h
  ELSE expandEnumsEach(expandEnumInPlace(h, Head(es), files), Tail(es), files)

\* expandAnnotations(aEntry, annotation, basePath) for the annotation object
\* at a: the heap after the call, or what the call throws.
expandAnnotationsInPlace(h, aEntry, a, files) ==
  CASE aEntry = "annotations" -> expandListInPlace(h, a, files)
    [] aEntry = "enums" /\ Get(h.cells[a.a], "enums").t = "null" -> Thrown("TypeError")
    [] aEntry = "enums" /\ Get(h.cells[a.a], "enums").t # "null" ->
         expandEnumsEach(h, membersOf(nodeOf(h, Get(h.cells[a.a], "enums"))), files)
    [] OTHER -> h

RECURSIVE mergeAnnotationsInPlace(_, _, _, _)

RECURSIVE mergeIntoEach(_, _, _, _)
\* for (let sEntry of sEntries) { await mergeAnnotations(sEntry, aEntry) }
mergeIntoEach(h, targets, aEntry, files) ==
  IF targets = <<>> \/ IsThrown(h) THEN h
  ELSE mergeIntoEach(mergeAnnotationsInPlace(h, Head(targets), aEntry, files),
                     Tail(targets), aEntry, files)

\* let sEntries = schema.filter(...).filter(...) for the schema array at s:
\* the references that pass, in the order of the array.
sEntriesInPlace(h, s, aEntry) ==
  SelectSeq(h.cells[s.a].el,
            LAMBDA e : /\ identityMatch(nodeOf(h, e), nodeOf(h, aEntry))
                       /\ boundMatch(nodeOf(h, e), nodeOf(h, aEntry)))

\* The body of the loop of line 643 on the heap.
entryRound(h, s, aEntry, files) ==
  IF IsThrown(h) THEN h
  ELSE IF readsNull(h.cells[s.a], nodeOf(h, aEntry)) THEN Thrown("TypeError")
  ELSE IF sEntriesInPlace(h, s, aEntry) = <<>> THEN Thrown("Unmatched entry")
  ELSE mergeIntoEach(h, sEntriesInPlace(h, s, aEntry), aEntry, files)

RECURSIVE entryRounds(_, _, _, _)
entryRounds(h, s, entries, files) ==
  IF entries = <<>> \/ IsThrown(h) THEN h
  ELSE entryRounds(entryRound(h, s, Head(entries), files), s, Tail(entries), files)

RECURSIVE mergeChoicesEach(_, _, _, _, _)
\* for (let i = 0; i < annotation[aEntry].length; i++) { ... }, i from 1 here
mergeChoicesEach(h, sc, ac, i, files) ==
  IF IsThrown(h) \/ i > Len(ac.el) THEN h
  ELSE mergeChoicesEach(mergeAnnotationsInPlace(h, elementAt(sc, i), ac.el[i], files),
                        sc, ac, i + 1, files)

\* Lines 672-677 on the heap, for the two values of `choices`.
mergeChoicesInPlace(h, sc, ac, files) ==
  IF choicesDiffer(nodeOf(h, sc), nodeOf(h, ac))
  THEN Thrown("Choices array with non-matching sizes: ")
  ELSE IF ~IsArray(nodeOf(h, ac)) THEN h
  ELSE mergeChoicesEach(h, nodeOf(h, sc), nodeOf(h, ac), 1, files)

\* A variant of line 668 that assigns a copy of its own to the schema: the
\* value is parsed anew from its JSON text.
assignCopy(h, s, a, aEntry) ==
  IF IsThrown(h) THEN h
  ELSE setProp(parse(h, stringify(h, Get(h.cells[a.a], aEntry))).h, s, aEntry,
               parse(h, stringify(h, Get(h.cells[a.a], aEntry))).val)

\* schema[aEntry] = annotation[aEntry] of line 668: the schema object and
\* the annotation object hold the same value from now on.
assignReference(h, s, a, aEntry) ==
  IF IsThrown(h) THEN h ELSE setProp(h, s, aEntry, Get(h.cells[a.a], aEntry))

\* The body of the loop of line 665 on the heap, for the key aEntry of the
\* annotation object at a.
keyRound(h, s, a, aEntry, files) ==
  IF IsThrown(h) THEN h
  ELSE IF s.t = "null" THEN Thrown("TypeError")
  ELSE IF falsy(Get(h.cells[s.a], aEntry))
  THEN assignReference(expandAnnotationsInPlace(h, aEntry, a, files), s, a, aEntry)
  ELSE IF aEntry = "choices"
  THEN mergeChoicesInPlace(h, Get(h.cells[s.a], aEntry), Get(h.cells[a.a], aEntry), files)
  ELSE mergeAnnotationsInPlace(h, Get(h.cells[s.a], aEntry), Get(h.cells[a.a], aEntry), files)

RECURSIVE keyRounds(_, _, _, _, _)
\* The loop of line 665 over Object.keys(annotation) as they are when the
\* loop begins.
keyRounds(h, s, a, keys, files) ==
  IF keys = <<>> \/ IsThrown(h) THEN h
  ELSE keyRounds(keyRound(h, s, a, Head(keys), files), s, a, Tail(keys), files)

\* mergeAnnotations(schema, annotation, basePath) on the heap h, for the
\* values s and a (references or scalars): the heap after the call, or what
\* the call throws.
mergeAnnotationsInPlace(h, s, a, files) ==
  IF IsThrown(h) THEN h
  ELSE IF typeof(s) # typeof(a) \/ IsArray(nodeOf(h, s)) # IsArray(nodeOf(h, a))
  THEN Thrown("Unexpected type mismatch between schema entry and annotation entry")
  ELSE IF IsArray(nodeOf(h, a)) THEN entryRounds(h, s, h.cells[a.a].el, files)
  ELSE IF a.t = "null" THEN Thrown("TypeError")
  ELSE IF a.t = "ref" THEN keyRounds(h, s, a, Keys(h.cells[a.a]), files)
  ELSE h

-----------------------------------------------------------------------------
(* The merge on the heap, followed by a change inside one schema entry.
   `schema` and `value` are the texts of schema.json and of the annotation
   file; `out` is the heap after the merge with the addresses of the two
   trees, or the error that ends the run; `out2` is the heap after lines
   514-519 of addFirefoxCompatData ran for one object of the schema tree. *)

\* The addresses an object or array of the heap holds.
refsIn(n) == {membersOf(n)[i].a : i \in {j \in 1..Len(membersOf(n)) : membersOf(n)[j].t = "ref"}}

RECURSIVE reachable(_, _, _)
\* The addresses that can be reached from the addresses todo, with those of
\* seen already visited.
reachable(h, todo, seen) ==
  IF todo = {} THEN seen
  ELSE LET x == CHOOSE y \in todo : TRUE
       IN reachable(h, (todo \cup refsIn(h.cells[x])) \ (seen \cup {x}), seen \cup {x})

\* The objects and arrays of the tree at x.
treeOf(h, x) == IF x.t = "ref" THEN reachable(h, {x.a}, {}) ELSE {}

\* The heap after both files are parsed, schema.json first.
bothParsed(s, a) ==
  [heap |-> parse(parse(EmptyHeap, s).h, a).h,
   schema |-> parse(EmptyHeap, s).val,
   annotation |-> parse(parse(EmptyHeap, s).h, a).val]

\* The heap after mergeAnnotations(schema.json, json, file.path), or what
\* the call throws.
mergedInPlace(s, a, files) ==
  mergeAnnotationsInPlace(bothParsed(s, a).heap, bothParsed(s, a).schema,
                          bothParsed(s, a).annotation, files)

\* if (!value.annotations) { value.annotations = []; }
ensureAnnotations(h, v) ==
  IF falsy(Get(h.cells[v.a], "annotations"))
  THEN setProp(parse(h, Arr(<<>>)).h, v, "annotations", parse(h, Arr(<<>>)).val)
  ELSE h

\* array.push(item) for the array at address a.
pushOnto(h, a, item) ==
  Heap([h.cells EXCEPT ![a] = Arr(Append(h.cells[a].el, item))])

\* value.annotations.push({ mdn_documentation_url: compatData.mdn_url }) for
\* the object at v, after the list was ensured.
pushMdnUrl(h, v, url) ==
  pushOnto(parse(h, Obj(<<KV("mdn_documentation_url", Str(url))>>)).h,
           Get(h.cells[v.a], "annotations").a,
           parse(h, Obj(<<KV("mdn_documentation_url", Str(url))>>)).val)

\* Lines 514-519 for the object at v and a record with mdn_url.
attachMdnUrl(h, v, url) == pushMdnUrl(ensureAnnotations(h, v), v, url)

\* The objects of schema.json as parsed: the values that processSchema hands
\* to addFirefoxCompatData.
schemaObjects(s) ==
  {Ref(x) : x \in {y \in 1..Size(s) : parse(EmptyHeap, s).h.cells[y].t = "obj"}}

\* The annotations of the object at v are missing or an array: push is defined.
canPush(h, v) ==
  \/ falsy(Get(h.cells[v.a], "annotations"))
  \/ IsArray(nodeOf(h, Get(h.cells[v.a], "annotations")))

InitSharing ==
  /\ schema \in SchemaJsons
  /\ value \in AnnotationFiles(MaxAnnotationEntries)
  /\ remote = [bcd |-> Undefined, log |-> <<>>, files |-> <<>>, versions |-> <<>>,
               docs |-> FALSE, includes |-> IncludeFiles]
  /\ mv = 2
  /\ out = Undefined
  /\ out2 = Undefined
  /\ pc = "start"
  /\ schemaInfo = Undefined
  /\ searchPath = Undefined
  /\ revIdx = 0
  /\ tested = <<>>

\* await mergeAnnotations(schema.json, json, file.path) returns
MergeInPlace ==
  /\ pc = "start"
  /\ ~IsThrown(mergedInPlace(schema, value, remote.includes))
  /\ out' = [heap |-> mergedInPlace(schema, value, remote.includes),
             schema |-> bothParsed(schema, value).schema,
             annotation |-> bothParsed(schema, value).annotation]
  /\ pc' = "merged"
  /\ UNCHANGED <<schema, value, mv, out2, schemaInfo, searchPath, remote, revIdx, tested>>

\* await mergeAnnotations(schema.json, json, file.path) throws
MergeInPlaceThrows ==
  /\ pc = "start"
  /\ IsThrown(mergedInPlace(schema, value, remote.includes))
  /\ out' = mergedInPlace(schema, value, remote.includes)
  /\ pc' = "aborted"
  /\ UNCHANGED <<schema, value, mv, out2, schemaInfo, searchPath, remote, revIdx, tested>>

\* addFirefoxCompatData finds a record with mdn_url for one object of the
\* schema tree and appends to its annotations.
AttachMdnUrl ==
  /\ pc = "merged"
  /\ \E v \in schemaObjects(schema) :
       /\ canPush(out.heap, v)
       /\ out2' = [heap |-> attachMdnUrl(out.heap, v, "u"), value |-> v]
  /\ pc' = "attached"
  /\ UNCHANGED <<schema, value, mv, out, schemaInfo, searchPath, remote, revIdx, tested>>

NextSharing == MergeInPlace \/ MergeInPlaceThrows \/ AttachMdnUrl
SpecSharing == InitSharing /\ [][NextSharing]_vars

-----------------------------------------------------------------------------
(* Claims about the values the merge assigns, checked under SpecSharing *)

\* The objects of schema.json that do not hold the object at v.
OtherEntries(h, v) == {x \in schemaObjects(schema) : v.a \notin treeOf(h, x)}

\* C21: when an annotation object has a key that the schema object lacks, the
\* schema receives a copy of its own: after the merge no object or array
\* belongs to both trees, and appending to the annotations of one schema
\* object changes neither the annotation tree nor any schema object that
\* does not hold the changed one.
C21_AssignedValueIsACopy ==
  /\ pc = "merged" =>
       treeOf(out.heap, out.schema) \cap treeOf(out.heap, out.annotation) = {}
  /\ pc = "attached" =>
       /\ stringify(out2.heap, out.annotation) = stringify(out.heap, out.annotation)
       /\ \A x \in OtherEntries(out.heap, out2.value) :
            stringify(out2.heap, x) = stringify(out.heap, x)

\* Some assignment of line 668 ran in the merge: the schema tree holds a key
\* that schema.json does not.
C21_Assigned ==
  /\ pc = "attached"
  /\ stringify(out.heap, out.schema) # schema

-----------------------------------------------------------------------------
(* Two annotations merged into one schema file, in both orders.  `schema` is
   the text of schema.json, `value` the two parsed annotations, `out` the
   schema after the first annotation and then the second were merged, `out2`
   the schema after the second and then the first; each is the JSON value of
   the schema tree, or the error of the merge that threw. *)

\* Schema files with two entries that one annotation entry can match.
CommuteSchemas ==
  { Arr(<<Obj(<<KV("name", Str("a"))>>),
          Obj(<<KV("name", Str("a")), KV("id", Str("B"))>>)>>),
    Arr(<<Obj(<<KV("name", Str("a")), KV("type", Str("function"))>>),
          Obj(<<KV("id", Str("B")), KV("type", Str("object"))>>)>>),
    Arr(<<Obj(<<KV("name", Str("a")), KV("foo", Obj(<<KV("z", Num(0))>>))>>),
          Obj(<<KV("id", Str("B"))>>)>>),
    Arr(<<Obj(<<KV("namespace", Str("ns"))>>), Obj(<<KV("name", Str("a"))>>)>>) }

\* Annotation files of one entry.
CommuteAnnotations ==
  { Arr(<<Obj(<<KV("name", Str("a")), KV("foo", Obj(<<KV("x", Num(1))>>))>>)>>),
    Arr(<<Obj(<<KV("id", Str("B")), KV("foo", Obj(<<KV("y", Num(2))>>))>>)>>),
    Arr(<<Obj(<<KV("name", Str("a")), Described("d")>>)>>),
    Arr(<<Obj(<<KV("id", Str("B")), Described("e")>>)>>),
    Arr(<<Obj(<<KV("name", Str("a")), KV("namespace", Str("ns"))>>)>>),
    Arr(<<Obj(<<KV("namespace", Str("ns")), Described("d")>>)>>),
    Arr(<<Obj(<<KV("id", Str("B")),
                KV("annotations", Arr(<<Annotation("note", Str("n"))>>))>>)>>),
    Arr(<<Obj(<<KV("name", Str("a")),
                KV("annotations", Arr(<<Annotation("code", Str("a.js"))>>))>>)>>),
    Arr(<<Obj(<<KV("id", Str("B")), KV("foo", Str("s"))>>)>>),
    Arr(<<Obj(<<KV("id", Str("B")), KV("type", Str("object"))>>)>>),
    Arr(<<Obj(<<KV("id", Str("zz")), Described("d")>>)>>) }

\* The heap after schema.json and the two annotations are parsed.
threeParsed(s, a, b) ==
  [heap |-> parse(bothParsed(s, a).heap, b).h,
   schema |-> bothParsed(s, a).schema,
   first |-> bothParsed(s, a).annotation,
   second |-> parse(bothParsed(s, a).heap, b).val]

\* The schema tree as a JSON value, or the error.
schemaOrThrown(h, s) == IF IsThrown(h) THEN h ELSE stringify(h, s)

\* await mergeAnnotations(schema, a); await mergeAnnotations(schema, b)
mergedTwice(p, a, b, files) ==
  schemaOrThrown(
    mergeAnnotationsInPlace(mergeAnnotationsInPlace(p.heap, p.schema, a, files),
                            p.schema, b, files),
    p.schema)

InitCommute ==
  /\ schema \in CommuteSchemas
  /\ value \in [first : CommuteAnnotations, second : CommuteAnnotations]
  /\ remote = [bcd |-> Undefined, log |-> <<>>, files |-> <<>>, versions |-> <<>>,
               docs |-> FALSE, includes |-> IncludeFiles]
  /\ mv = 2
  /\ out = Undefined
  /\ out2 = Undefined
  /\ pc = "start"
  /\ schemaInfo = Undefined
  /\ searchPath = Undefined
  /\ revIdx = 0
  /\ tested = <<>>

\* The first annotation is merged, then the second.
MergeForward ==
  /\ pc = "start"
  /\ out' = mergedTwice(threeParsed(schema, value.first, value.second),
                        threeParsed(schema, value.first, value.second).first,
                        threeParsed(schema, value.first, value.second).second,
                        remote.includes)
  /\ pc' = "forward"
  /\ UNCHANGED <<schema, value, mv, out2, schemaInfo, searchPath, remote, revIdx, tested>>

\* On a new parse of the three texts the second annotation is merged, then
\* the first.
MergeBackward ==
  /\ pc = "forward"
  /\ out2' = mergedTwice(threeParsed(schema, value.first, value.second),
                         threeParsed(schema, value.first, value.second).second,
                         threeParsed(schema, value.first, value.second).first,
                         remote.includes)
  /\ pc' = "done"
  /\ UNCHANGED <<schema, value, mv, out, schemaInfo, searchPath, remote, revIdx, tested>>

NextCommute == MergeForward \/ MergeBackward
SpecCommute == InitCommute /\ [][NextCommute]_vars

-----------------------------------------------------------------------------
(* Claims about the order of two merges, checked under SpecCommute *)

\* The keys on the way to p, the places in arrays left out.
KeysOn(p) == SelectSeq([i \in 1..Len(p) |-> IF "key" \in DOMAIN p[i] THEN p[i].key ELSE ""],
                       LAMBDA k : k # "")

\* The keys an annotation touches: the ways of keys to its strings and
\* numbers.
TouchedKeys(a) ==
  {KeysOn(p) : p \in {q \in Paths(a) : At(a, q).t \notin {"obj", "arr"}}}

\* One way of keys begins the other.
Overlap(p, q) ==
  \/ Len(p) <= Len(q) /\ SubSeq(q, 1, Len(p)) = p
  \/ Len(q) <= Len(p) /\ SubSeq(p, 1, Len(q)) = q

\* The two annotations touch disjoint key sets.
DisjointKeys(a, b) ==
  \A p \in TouchedKeys(a) : \A q \in TouchedKeys(b) : ~Overlap(p, q)

RECURSIVE SameJson(_, _)
\* x and y are the same JSON value, the order of keys aside.
SameJson(x, y) ==
  CASE x.t = "obj" /\ y.t = "obj" ->
         /\ KeySet(x) = KeySet(y)
         /\ \A k \in KeySet(x) : SameJson(Get(x, k), Get(y, k))
    [] x.t = "arr" /\ y.t = "arr" ->
         /\ Len(x.el) = Len(y.el)
         /\ \A i \in 1..Len(x.el) : SameJson(x.el[i], y.el[i])
    [] OTHER -> x = y

\* C22: for two annotations that touch disjoint key sets either both orders
\* of merging throw, or both give the same schema, key order aside.
C22_MergeCommutes ==
  (pc = "done" /\ DisjointKeys(value.first, value.second)) =>
    /\ IsThrown(out) <=> IsThrown(out2)
    /\ ~IsThrown(out) => SameJson(out, out2)

-----------------------------------------------------------------------------
(* One run of main().  `schema` is the list of the names of the schema files
   that the run holds when it writes, `remote` tells in `fails` which input
   of the run cannot be read or merged ("none" if all can) and in `old` the
   files that the output directory holds from an earlier run, `out` is the
   output directory: the set of its files, revIdx the number of rounds that
   the loop over the schemas of line 337 has made.  pc is the place of the
   run in main(). *)

MaxSchemaFiles == 3

SchemaFileNames == <<"a.json", "b.json", "c.json", "d.json">>

\* The inputs of a run whose reading or merging can end the run.
FatalInputs == {"permissions", "placeholders", "schemas", "annotations", "version"}

\* What the run does with an input: the step that follows when it succeeds.
StepAfter ==
  [permissions |-> "placeholders", placeholders |-> "schemas",
   schemas |-> "annotations", annotations |-> "process", version |-> "write"]

InitRun ==
  /\ schema \in {SubSeq(SchemaFileNames, 1, n) : n \in 1..MaxSchemaFiles}
  /\ remote \in [fails : FatalInputs \cup {"none"},
                 old : {{}, {"old.json"}, {"a.json", "permissions.ftl"}}]
  /\ out = remote.old
  /\ pc = "setup"
  /\ value = Undefined
  /\ mv = 2
  /\ out2 = Undefined
  /\ schemaInfo = Undefined
  /\ searchPath = Undefined
  /\ revIdx = 0
  /\ tested = <<>>

\* fs.rm(args.output, { recursive: true, force: true }); fs.mkdir(args.output)
SetupOutput ==
  /\ pc = "setup"
  /\ out' = {}
  /\ pc' = "permissions"
  /\ UNCHANGED <<schema, value, mv, out2, schemaInfo, searchPath, remote, revIdx, tested>>

\* extractPermissionStrings(args.source) and fs.writeFile(permissionStringsFile, ...)
WritePermissions ==
  /\ pc = "permissions"
  /\ remote.fails # "permissions"
  /\ out' = out \cup {"permissions.ftl"}
  /\ pc' = StepAfter["permissions"]
  /\ UNCHANGED <<schema, value, mv, out2, schemaInfo, searchPath, remote, revIdx, tested>>

\* The URL placeholders are read (154-165), the schema files are read
\* (168-196), the annotation files are merged (199-211): nothing is written.
ReadInput ==
  /\ pc \in {"placeholders", "schemas", "annotations"}
  /\ remote.fails # pc
  /\ pc' = StepAfter[pc]
  /\ UNCHANGED <<schema, value, mv, out, out2, schemaInfo, searchPath, remote, revIdx, tested>>

\* The schemas are filtered and processed and their links verified (216-314).
ProcessSchemas ==
  /\ pc = "process"
  /\ pc' = "version"
  /\ UNCHANGED <<schema, value, mv, out, out2, schemaInfo, searchPath, remote, revIdx, tested>>

\* The version file is read and the version added to the schemas (317-334).
ReadVersion ==
  /\ pc = "version"
  /\ remote.fails # "version"
  /\ pc' = StepAfter["version"]
  /\ UNCHANGED <<schema, value, mv, out, out2, schemaInfo, searchPath, remote, revIdx, tested>>

\* A read fails or mergeAnnotations throws: the error leaves main().
RunThrows ==
  /\ pc \in FatalInputs
  /\ remote.fails = pc
  /\ pc' = "aborted"
  /\ UNCHANGED <<schema, value, mv, out, out2, schemaInfo, searchPath, remote, revIdx, tested>>

\* One round of the loop of line 337: writePrettyJSONFile for the next schema.
WriteSchemaFile ==
  /\ pc = "write"
  /\ revIdx < Len(schema)
  /\ out' = out \cup {schema[revIdx + 1]}
  /\ revIdx' = revIdx + 1
  /\ UNCHANGED <<schema, value, mv, out2, pc, schemaInfo, searchPath, remote, tested>>

\* The loop of line 337 ends; fs.rm(TEMP_DIR) and main() returns.
Cleanup ==
  /\ pc = "write"
  /\ revIdx = Len(schema)
  /\ pc' = "done"
  /\ UNCHANGED <<schema, value, mv, out, out2, schemaInfo, searchPath, remote, revIdx, tested>>

NextRun ==
  \/ SetupOutput
  \/ WritePermissions
  \/ ReadInput
  \/ ProcessSchemas
  \/ ReadVersion
  \/ RunThrows
  \/ WriteSchemaFile
  \/ Cleanup
SpecRun == InitRun /\ [][NextRun]_vars

-----------------------------------------------------------------------------
(* Claims about the output of a run, checked under SpecRun *)

\* The full output set of the run.
FullOutput == {schema[i] : i \in 1..Len(schema)} \cup {"permissions.ftl"}

\* C23: a run that completes has written the full output set, and a run that
\* a fatal error ends has written no file to the output directory.
C23_AllOrNothing ==
  /\ pc = "done" => out = FullOutput
  /\ pc = "aborted" => out = {}

-----------------------------------------------------------------------------
(* sortKeys of modules/tools.mjs.  An object holds its keys as the language
   orders them: the keys that are array indices ("9", "10") first, by their
   number, then the other keys in the order in which they were added. *)

MaxSortKeys == 3

\* The keys of the modelled objects in the order of their UTF-16 code units,
\* the order of Array.prototype.sort() without a compare function.
SortKeyOrder == <<"10", "9", "a", "b">>
KeyRank(k) == CHOOSE i \in 1..Len(SortKeyOrder) : SortKeyOrder[i] = k

\* The keys that are array indices, with their numbers.
IndexKeys == ("9" :> 9) @@ ("10" :> 10)
isIndexKey(k) == k \in DOMAIN IndexKeys

\* The place at which an object with the pairs kv holds the new key k.
placeOf(kv, k) ==
  IF isIndexKey(k)
  THEN Cardinality({i \in 1..Len(kv) :
                      isIndexKey(kv[i].k) /\ IndexKeys[kv[i].k] < IndexKeys[k]}) + 1
  ELSE Len(kv) + 1

\* { ...o, [k]: v }: a new object with the properties of o and the property k.
withProperty(o, k, v) ==
  IF Has(o, k) THEN Put(o, k, v)
  ELSE Obj(SubSeq(o.kv, 1, placeOf(o.kv, k) - 1) \o <<KV(k, v)>>
             \o SubSeq(o.kv, placeOf(o.kv, k), Len(o.kv)))

RECURSIVE sorted(_)
\* keys.sort() for an array of distinct keys.
sorted(keys) ==
  IF keys = <<>> THEN <<>>
  ELSE LET i == CHOOSE j \in 1..Len(keys) :
                  \A n \in 1..Len(keys) : KeyRank(keys[j]) <= KeyRank(keys[n])
       IN <<keys[i]>> \o sorted(SubSeq(keys, 1, i - 1) \o SubSeq(keys, i + 1, Len(keys)))

RECURSIVE sortKeys(_)
RECURSIVE reduceSorted(_, _, _)
\* .reduce((o, k) => ({ ...o, [k]: sortKeys(x[k]) }), {}) from the accumulator o
reduceSorted(x, keys, o) ==
  IF keys = <<>> THEN o
  ELSE reduceSorted(x, Tail(keys), withProperty(o, Head(keys), sortKeys(Get(x, Head(keys)))))

\* A variant of sortKeys that leaves the elements of an array as they are.
sortKeysNotInArrays(x) ==
  IF x.t \notin {"obj", "arr"} THEN x
  ELSE IF x.t = "arr" THEN x
  ELSE reduceSorted(x, sorted(Keys(x)), Obj(<<>>))

\* sortKeys(x)
sortKeys(x) ==
  IF x.t \notin {"obj", "arr"} THEN x
  ELSE IF x.t = "arr" THEN Arr([i \in 1..Len(x.el) |-> sortKeys(x.el[i])])
  ELSE reduceSorted(x, sorted(Keys(x)), Obj(<<>>))

RECURSIVE objectFrom(_, _, _)
\* The object that holds the keys ks, added in this order, the i-th with the
\* value i + n.
objectFrom(ks, n, o) ==
  IF ks = <<>> THEN o
  ELSE objectFrom(Tail(ks), n + 1, withProperty(o, Head(ks), Num(n + 1)))

\* The objects with up to n keys and numbers as values.
FlatObjects(n) ==
  {objectFrom(ks, 0, Obj(<<>>)) :
     ks \in {s \in UNION {[1..k -> {"10", "9", "a", "b"}] : k \in 0..n} :
               \A i, j \in 1..Len(s) : i # j => s[i] # s[j]}}

\* The JSON values handed to sortKeys: scalars, objects, objects in objects
\* and objects in arrays of mixed content.
SortInputs ==
  {Num(42), Str("string"), Null}
    \cup FlatObjects(MaxSortKeys)
    \cup {Obj(<<KV("b", Arr(<<o, Num(42), Str("string"), Obj(<<KV("b", Num(2)), KV("a", o)>>)>>)),
                KV("a", o)>>) : o \in FlatObjects(MaxSortKeys - 1)}
    \cup {Arr(<<o, Num(42), Str("string"), Arr(<<o>>)>>) : o \in FlatObjects(MaxSortKeys - 1)}

InitSort ==
  /\ value \in SortInputs
  /\ out = Undefined
  /\ out2 = Undefined
  /\ pc = "start"
  /\ schema = Undefined
  /\ remote = [bcd |-> Undefined, log |-> <<>>, files |-> <<>>, versions |-> <<>>,
               docs |-> FALSE, includes |-> <<>>]
  /\ mv = 2
  /\ schemaInfo = Undefined
  /\ searchPath = Undefined
  /\ revIdx = 0
  /\ tested = <<>>

\* out = sortKeys(value)
RunSortKeys ==
  /\ pc = "start"
  /\ out' = sortKeys(value)
  /\ pc' = "sorted"
  /\ UNCHANGED <<schema, value, mv, out2, schemaInfo, searchPath, remote, revIdx, tested>>

\* out2 = sortKeys(out)
RunSortKeysAgain ==
  /\ pc = "sorted"
  /\ out2' = sortKeys(out)
  /\ pc' = "again"
  /\ UNCHANGED <<schema, value, mv, out, schemaInfo, searchPath, remote, revIdx, tested>>

NextSort == RunSortKeys \/ RunSortKeysAgain
SpecSort == InitSort /\ [][NextSort]_vars

-----------------------------------------------------------------------------
(* Claims about sortKeys, checked under SpecSort *)

\* The objects at every level of v.
ObjectsOf(v) == {At(v, p) : p \in {q \in Paths(v) : At(v, q).t = "obj"}}

\* The keys ks stand in ascending lexicographic order.
Ascending(ks) == \A i, j \in 1..Len(ks) : i < j => KeyRank(ks[i]) < KeyRank(ks[j])

\* The keys ks without the array indices, and the array indices alone.
NamedKeys(ks) == SelectSeq(ks, LAMBDA k : ~isIndexKey(k))
IndexKeysOf(ks) == SelectSeq(ks, LAMBDA k : isIndexKey(k))

\* The array indices stand first, by their numbers, and the other keys
\* follow in ascending lexicographic order.
IndicesThenAscending(ks) ==
  /\ ks = IndexKeysOf(ks) \o NamedKeys(ks)
  /\ \A i, j \in 1..Len(IndexKeysOf(ks)) :
       i < j => IndexKeys[IndexKeysOf(ks)[i]] < IndexKeys[IndexKeysOf(ks)[j]]
  /\ Ascending(NamedKeys(ks))

RECURSIVE SameButKeyOrder(_, _)
\* y holds the values of x: the same scalars, the same arrays element by
\* element, the same keys with the same values in every object.
SameButKeyOrder(x, y) ==
  CASE x.t = "obj" /\ y.t = "obj" ->
         /\ KeySet(x) = KeySet(y)
         /\ Len(x.kv) = Len(y.kv)
         /\ \A k \in KeySet(x) : SameButKeyOrder(Get(x, k), Get(y, k))
    [] x.t = "arr" /\ y.t = "arr" ->
         /\ Len(x.el) = Len(y.el)
         /\ \A i \in 1..Len(x.el) : SameButKeyOrder(x.el[i], y.el[i])
    [] OTHER -> x = y

\* C24: sortKeys(x) holds the values of x with the keys of every object at
\* every level in ascending lexicographic order, and sortKeys(sortKeys(x))
\* equals sortKeys(x).
C24_KeysAscending ==
  /\ pc \in {"sorted", "again"} =>
       /\ SameButKeyOrder(value, out)
       /\ \A o \in ObjectsOf(out) : Ascending(Keys(o))
  /\ pc = "again" => out2 = out

\* C24 as amended: sortKeys(x) holds the values of x with, in every object at
\* every level, the keys that are array indices first in the order of their
\* numbers and the other keys after them in ascending lexicographic order,
\* and sortKeys(sortKeys(x)) equals sortKeys(x).
C24_KeysAscendingAfterIndices ==
  /\ pc \in {"sorted", "again"} =>
       /\ SameButKeyOrder(value, out)
       /\ \A o \in ObjectsOf(out) : IndicesThenAscending(Keys(o))
  /\ pc = "again" => out2 = out

\* sortKeys ran twice on an object that holds the keys "b" and "a" in this
\* order, "b" with an array, and in the array an object with the array
\* indices "9" and "10".
C24_Witness ==
  /\ pc = "again"
  /\ value.t = "obj"
  /\ Keys(value) = <<"b", "a">>
  /\ Get(value, "b").t = "arr"
  /\ \E o \in ObjectsOf(Get(value, "b")) : Keys(o) = <<"9", "10">>
  /\ out # value

-----------------------------------------------------------------------------
(* readCachedUrl of modules/tools.mjs in one run.  `out` is SCHEMA_CACHE: for
   each cache type the Map of the run or Undefined before the first call for
   the type, a Map being the list of its entries.  `remote` holds in `files`
   the two cache files (the entries each stores, or Undefined where no
   readable file is), in `online` the URLs that
   the network answers with status 200 and in `writable` whether the cache
   files can be written.  `tested` is the list of the calls made so far, each
   with its URL, its cache type, whether it asked the network and what it
   returned; revIdx counts them.  A call that throws ends the run: no caller
   catches. *)

MaxCalls == 3

CachedUrls == {"u1", "u2"}
CacheTypes == {"temporary", "persistent"}
\* What the network answers for a URL; it can differ from one request to the
\* next.
Contents == {"v1", "v2"}

EmptyMap == Obj(<<>>)

\* const cache = temporary ? { type: 'temporary', ... } : { type: 'persistent', ... }
cacheType(temporary) == IF temporary THEN "temporary" ELSE "persistent"

\* Lines 154-162: the Map of the type, read from its file when the run has
\* none yet, empty when the file cannot be read.
loadedCache(cache, file) ==
  IF cache # Undefined THEN cache
  ELSE IF file = Undefined THEN EmptyMap
  ELSE file

\* A variant of Map.has that finds no URL.
hasNever(map, url) == FALSE

\* SCHEMA_CACHE[cache.type].has(url)
has(map, url) == Has(map, url)

\* SCHEMA_CACHE[cache.type].set(url, rev)
set(map, url, rev) == Put(map, url, Str(rev))

CallOf(url, type, fetched, result) ==
  [url |-> url, type |-> type, fetched |-> fetched, result |-> result]

InitCache ==
  /\ out = [type \in CacheTypes |-> Undefined]
  /\ remote \in [files : [CacheTypes -> {Undefined, EmptyMap, Obj(<<KV("u1", Str("v0"))>>)}],
                 online : SUBSET CachedUrls,
                 writable : BOOLEAN]
  /\ tested = <<>>
  /\ revIdx = 0
  /\ pc = "running"
  /\ schema = Undefined
  /\ value = Undefined
  /\ mv = 2
  /\ out2 = Undefined
  /\ schemaInfo = Undefined
  /\ searchPath = Undefined

\* readCachedUrl(url, { temporary }) finds the URL in the Map of the type.
ReturnCached ==
  /\ pc = "running"
  /\ revIdx < MaxCalls
  /\ \E url \in CachedUrls, temporary \in BOOLEAN :
       /\ has(loadedCache(out[cacheType(temporary)], remote.files[cacheType(temporary)]), url)
       /\ out' = [out EXCEPT ![cacheType(temporary)] =
                    loadedCache(out[cacheType(temporary)], remote.files[cacheType(temporary)])]
       /\ tested' = Append(tested,
            CallOf(url, cacheType(temporary), FALSE,
                   Get(loadedCache(out[cacheType(temporary)],
                                   remote.files[cacheType(temporary)]), url)))
  /\ revIdx' = revIdx + 1
  /\ UNCHANGED <<schema, value, mv, out2, pc, schemaInfo, searchPath, remote>>

\* readCachedUrl(url, { temporary }) does not find the URL: readUrl returns
\* rev, the Map and the cache file get the entry.
FetchAndStore ==
  /\ pc = "running"
  /\ revIdx < MaxCalls
  /\ remote.writable
  /\ \E url \in remote.online, temporary \in BOOLEAN, rev \in Contents :
       /\ ~has(loadedCache(out[cacheType(temporary)], remote.files[cacheType(temporary)]), url)
       /\ out' = [out EXCEPT ![cacheType(temporary)] =
                    set(loadedCache(out[cacheType(temporary)],
                                    remote.files[cacheType(temporary)]), url, rev)]
       /\ remote' = [remote EXCEPT !.files[cacheType(temporary)] =
                       set(loadedCache(out[cacheType(temporary)],
                                       remote.files[cacheType(temporary)]), url, rev)]
       /\ tested' = Append(tested, CallOf(url, cacheType(temporary), TRUE, Str(rev)))
  /\ revIdx' = revIdx + 1
  /\ UNCHANGED <<schema, value, mv, out2, pc, schemaInfo, searchPath>>

\* readUrl(url) throws for a status that is not 200: the Map is loaded and
\* nothing is stored.
FetchThrows ==
  /\ pc = "running"
  /\ revIdx < MaxCalls
  /\ \E url \in CachedUrls \ remote.online, temporary \in BOOLEAN :
       /\ ~has(loadedCache(out[cacheType(temporary)], remote.files[cacheType(temporary)]), url)
       /\ out' = [out EXCEPT ![cacheType(temporary)] =
                    loadedCache(out[cacheType(temporary)], remote.files[cacheType(temporary)])]
       /\ tested' = Append(tested, CallOf(url, cacheType(temporary), TRUE, Thrown("StatusError")))
  /\ revIdx' = revIdx + 1
  /\ pc' = "aborted"
  /\ UNCHANGED <<schema, value, mv, out2, schemaInfo, searchPath, remote>>

\* writePrettyJSONFile throws after the entry was set in the Map.
StoreThrows ==
  /\ pc = "running"
  /\ revIdx < MaxCalls
  /\ ~remote.writable
  /\ \E url \in remote.online, temporary \in BOOLEAN, rev \in Contents :
       /\ ~has(loadedCache(out[cacheType(temporary)], remote.files[cacheType(temporary)]), url)
       /\ out' = [out EXCEPT ![cacheType(temporary)] =
                    set(loadedCache(out[cacheType(temporary)],
                                    remote.files[cacheType(temporary)]), url, rev)]
       /\ tested' = Append(tested, CallOf(url, cacheType(temporary), TRUE, Thrown("EACCES")))
  /\ revIdx' = revIdx + 1
  /\ pc' = "aborted"
  /\ UNCHANGED <<schema, value, mv, out2, schemaInfo, searchPath, remote>>

NextCache == ReturnCached \/ FetchAndStore \/ FetchThrows \/ StoreThrows
SpecCache == InitCache /\ [][NextCache]_vars

-----------------------------------------------------------------------------
(* Claims about the cache, checked under SpecCache *)

\* The calls before the n-th for the URL and cache type of the n-th.
EarlierCalls(n) ==
  {i \in 1..(n - 1) : tested[i].url = tested[n].url /\ tested[i].type = tested[n].type}

\* Every call but the first for a URL and a cache type returns, without
\* asking the network, what the first returned.
FetchedOnce ==
  \A n \in 1..Len(tested) : \A i \in EarlierCalls(n) :
    /\ ~tested[n].fetched
    /\ tested[n].result = tested[i].result

\* An entry of a Map of the run stays as it is.
EntriesKept ==
  \A type \in CacheTypes :
    out[type] # Undefined =>
      \A url \in KeySet(out[type]) :
        /\ Has(out'[type], url)
        /\ Get(out'[type], url) = Get(out[type], url)

\* C25: in the calls of one run the network is asked at most once for a URL
\* and a cache type, on the first call for them; every later call returns
\* what the first returned; an entry once stored is never changed or removed.
C25_FetchedOnceAndKept == []FetchedOnce /\ [][EntriesKept]_vars

\* A URL was fetched and stored, and a later call for it and the same cache
\* type was made, while the same URL was also asked for the other type.
C25_Witness ==
  \E i, j, n \in 1..Len(tested) :
    /\ i < j
    /\ tested[i].url = tested[j].url /\ tested[i].type = tested[j].type
    /\ tested[i].fetched
    /\ tested[n].url = tested[i].url /\ tested[n].type # tested[i].type

-----------------------------------------------------------------------------
(* Claims about the URL placeholders of descriptions, checked under
   SpecSchema *)

\* The places of the description and deprecated texts of the input that the
\* result holds too.
DescriptionPaths ==
  {p \in Paths(value) :
     /\ p # <<>>
     /\ "key" \in DOMAIN p[Len(p)]
     /\ p[Len(p)].key \in {"description", "deprecated"}
     /\ At(value, p).t = "text"
     /\ At(out, p).t = "text"}

\* The places of the placeholders $(url:key)[label] in the text of the input
\* at p.
PlaceholdersAt(p) ==
  {i \in 1..Len(At(value, p).toks) : At(value, p).toks[i].k = "urlph"}

\* C26: in the description and deprecated texts of the result every
\* $(url:key)[label] whose key is in the placeholder map has become
\* <a href='URL'>label</a> with exactly the mapped URL, and every one whose
\* key is not in the map stands as it was written.
C26_PlaceholdersReplaced ==
  pc = "done" =>
    \A p \in DescriptionPaths : \A i \in PlaceholdersAt(p) :
      At(out, p).toks[i] =
        IF At(value, p).toks[i].key \in DOMAIN UrlReplacements
        THEN Link(UrlReplacements[At(value, p).toks[i].key], At(value, p).toks[i].label)
        ELSE At(value, p).toks[i]

\* C26 as amended: every $(url:key)[label] for whose key the map holds a URL
\* that is not empty has become <a href='URL'>label</a>, and every other one
\* stands as it was written, in both cases with every "Firefox" of the URL,
\* the key and the label replaced by "Thunderbird".
C26_PlaceholdersReplacedAndRebranded ==
  pc = "done" =>
    \A p \in DescriptionPaths : \A i \in PlaceholdersAt(p) :
      At(out, p).toks[i] =
        IF /\ At(value, p).toks[i].key \in DOMAIN UrlReplacements
           /\ UrlReplacements[At(value, p).toks[i].key] # ""
        THEN Link(Brand(UrlReplacements[At(value, p).toks[i].key]),
                  Brand(At(value, p).toks[i].label))
        ELSE UrlPh(Brand(At(value, p).toks[i].key), Brand(At(value, p).toks[i].label))

\* processSchema returned a description with a placeholder that has a URL and
\* one whose key the map does not hold.
C26_Witness ==
  /\ pc = "done"
  /\ \E p \in DescriptionPaths : \E i, j \in PlaceholdersAt(p) :
       /\ At(value, p).toks[i].key \in DOMAIN UrlReplacements
       /\ At(out, p).toks[i].k = "link"
       /\ At(value, p).toks[j].key \notin DOMAIN UrlReplacements
       /\ At(out, p).toks[j].k = "urlph"

-----------------------------------------------------------------------------
(* The filter for supported schema entries of main() (lines 213-266), for
   one schema file.  `schema` is the file before the filter: its owner and
   its json, the array of its top-level entries.  `out` is what flatMap gets
   for the file: whether the file is kept, its json and its version_added
   after the filter; or the error that ends the run. *)

MaxTopEntries == 2

VersionAdded(v) == Annotation("version_added", Str(v))
ManifestEntry(types) == Obj(<<KV("namespace", Str("manifest")), KV("types", Arr(types))>>)
Extending(name, rest) == Obj(<<KV("$extend", Str(name))>> \o rest)

\* Top-level entries of a schema file after the annotation files were merged.
TopEntries ==
  { Obj(<<KV("namespace", Str("x")), KV("annotations", Arr(<<VersionAdded("78")>>))>>),
    Obj(<<KV("namespace", Str("y")),
          KV("annotations", Arr(<<Annotation("note", Str("n")), VersionAdded("91")>>))>>),
    Obj(<<KV("namespace", Str("z"))>>),
    ManifestEntry(<<Extending("WebExtensionManifest",
      <<KV("properties",
           Obj(<<KV("p", Obj(<<KV("annotations", Arr(<<VersionAdded("78")>>))>>))>>))>>)>>),
    ManifestEntry(<<Obj(<<KV("id", Str("T"))>>),
                    Extending("WebExtensionManifest",
      <<KV("properties", Obj(<<KV("p", Obj(<<KV("type", Str("string"))>>))>>))>>)>>),
    ManifestEntry(<<Extending("Permission",
      <<KV("choices",
           Arr(<<Obj(<<KV("type", Str("string"))>>),
                 Obj(<<KV("enum", Arr(<<Str("a")>>)),
                       KV("enums",
                          Obj(<<KV("a", Obj(<<KV("annotations",
                                                 Arr(<<VersionAdded("78")>>))>>))>>))>>)>>))>>)>>),
    ManifestEntry(<<Extending("OptionalPermission",
      <<KV("choices", Arr(<<Obj(<<KV("enum", Arr(<<Str("a")>>))>>)>>))>>)>>),
    Obj(<<KV("namespace", Str("w")),
          KV("annotations", Arr(<<Annotation("note", Str("n"))>>))>>),
    ManifestEntry(<<Extending("WebExtensionManifest", <<>>)>>),
    ManifestEntry(<<Extending("PermissionNoPrompt", <<KV("type", Str("string"))>>)>>) }

PermissionTypes ==
  {"Permission", "OptionalPermission", "PermissionNoPrompt", "OptionalPermissionNoPrompt"}

\* p.annotations && p.annotations.some(a => a.version_added)
someVersionAdded(p) ==
  /\ Truthy(Get(p, "annotations"))
  /\ \E i \in 1..Len(Get(p, "annotations").el) :
       Truthy(Get(Get(p, "annotations").el[i], "version_added"))

\* j.annotations.find(a => a.version_added)
findVersionAdded(list) ==
  IF \E i \in 1..Len(list.el) : Truthy(Get(list.el[i], "version_added"))
  THEN list.el[CHOOSE i \in 1..Len(list.el) :
                 /\ Truthy(Get(list.el[i], "version_added"))
                 /\ \A n \in 1..(i - 1) : ~Truthy(Get(list.el[n], "version_added"))]
  ELSE Undefined

\* A variant of line 224 that reads version_added only from a found
\* annotation.
rootVersionAddedIfFound(j) ==
  IF ~Truthy(Get(j, "annotations")) THEN Get(j, "annotations")
  ELSE IF findVersionAdded(Get(j, "annotations")) = Undefined THEN Undefined
  ELSE Get(findVersionAdded(Get(j, "annotations")), "version_added")

\* j.annotations && j.annotations.find(a => a.version_added).version_added
rootVersionAdded(j) ==
  IF ~Truthy(Get(j, "annotations")) THEN Get(j, "annotations")
  ELSE IF findVersionAdded(Get(j, "annotations")) = Undefined THEN Thrown("TypeError")
  ELSE Get(findVersionAdded(Get(j, "annotations")), "version_added")

\* Lines 228-231: the version_added annotations leave the entry.
withoutVersionAdded(j) ==
  IF SelectSeq(Get(j, "annotations").el, LAMBDA a : ~Truthy(Get(a, "version_added"))) = <<>>
  THEN Del(j, "annotations")
  ELSE Put(j, "annotations",
           Arr(SelectSeq(Get(j, "annotations").el,
                         LAMBDA a : ~Truthy(Get(a, "version_added")))))

\* The test of one type t in the callback of line 237: "yes", "no" or
\* "throws".
manifestType(t) ==
  IF Get(t, "$extend") # Str("WebExtensionManifest") THEN "no"
  ELSE IF ~IsObject(Get(t, "properties")) THEN "throws"
  ELSE IF \E i \in 1..Len(Get(t, "properties").kv) :
            someVersionAdded(Get(t, "properties").kv[i].v)
  THEN "yes" ELSE "no"

\* c.enums && Object.values(c.enums).some(...)
choiceAnnotated(c) ==
  /\ Truthy(Get(c, "enums"))
  /\ \E i \in 1..Len(Get(c, "enums").kv) : someVersionAdded(Get(c, "enums").kv[i].v)

\* The test of one type t in the callback of line 248.
permissionType(t) ==
  IF ~(Get(t, "$extend").t = "str" /\ Get(t, "$extend").s \in PermissionTypes) THEN "no"
  ELSE IF ~IsArray(Get(t, "choices")) THEN "throws"
  ELSE IF \E i \in 1..Len(Get(t, "choices").el) : choiceAnnotated(Get(t, "choices").el[i])
  THEN "yes" ELSE "no"

\* types.some(test): the first type that does not answer "no" decides.
someType(answers) ==
  IF \A i \in 1..Len(answers) : answers[i] = "no" THEN "no"
  ELSE answers[CHOOSE i \in 1..Len(answers) :
                 answers[i] # "no" /\ \A n \in 1..(i - 1) : answers[n] = "no"]

\* j.types && j.types.some(...) of line 237 and of line 248
someManifestType(j) ==
  IF ~Truthy(Get(j, "types")) THEN "no"
  ELSE someType([i \in 1..Len(Get(j, "types").el) |-> manifestType(Get(j, "types").el[i])])

somePermissionType(j) ==
  IF ~Truthy(Get(j, "types")) THEN "no"
  ELSE someType([i \in 1..Len(Get(j, "types").el) |-> permissionType(Get(j, "types").el[i])])

Filtered(json, version) == [t |-> "filtered", json |-> json, version_added |-> version]

\* One call of the callback of schema.json.filter for the entry j, with what
\* the rounds before left in acc.
filterEntry(acc, j) ==
  IF IsThrown(acc) THEN acc
  ELSE IF IsThrown(rootVersionAdded(j)) THEN rootVersionAdded(j)
  ELSE IF Truthy(rootVersionAdded(j))
  THEN Filtered(Append(acc.json, withoutVersionAdded(j)), rootVersionAdded(j))
  ELSE IF someManifestType(j) = "throws" THEN Thrown("TypeError")
  ELSE IF someManifestType(j) = "yes" THEN Filtered(Append(acc.json, j), acc.version_added)
  ELSE IF somePermissionType(j) = "throws" THEN Thrown("TypeError")
  ELSE IF somePermissionType(j) = "yes" THEN Filtered(Append(acc.json, j), acc.version_added)
  ELSE acc

RECURSIVE filterEntries(_, _)
\* schema.json.filter(j => ...)
filterEntries(acc, entries) ==
  IF entries = <<>> THEN acc
  ELSE filterEntries(filterEntry(acc, Head(entries)), Tail(entries))

\* The callback of schemas.flatMap for one schema file.
filterSchema(s) ==
  IF s.owner = "thunderbird" THEN Filtered(s.json.el, Undefined)
  ELSE filterEntries(Filtered(<<>>, Undefined), s.json.el)

InitFilter ==
  /\ schema \in [owner : {"thunderbird", "firefox"},
                 json : {Arr(es) : es \in UNION {[1..n -> TopEntries] : n \in 0..MaxTopEntries}}]
  /\ out = Undefined
  /\ pc = "start"
  /\ value = Undefined
  /\ mv = 2
  /\ out2 = Undefined
  /\ schemaInfo = Undefined
  /\ searchPath = Undefined
  /\ remote = Undefined
  /\ revIdx = 0
  /\ tested = <<>>

\* The callback of flatMap returns [schema] or [].
FilterSchema ==
  /\ pc = "start"
  /\ ~IsThrown(filterSchema(schema))
  /\ out' = filterSchema(schema)
  /\ pc' = "filtered"
  /\ UNCHANGED <<schema, value, mv, out2, schemaInfo, searchPath, remote, revIdx, tested>>

\* The callback of flatMap throws: the error leaves main().
FilterThrows ==
  /\ pc = "start"
  /\ IsThrown(filterSchema(schema))
  /\ out' = filterSchema(schema)
  /\ pc' = "aborted"
  /\ UNCHANGED <<schema, value, mv, out2, schemaInfo, searchPath, remote, revIdx, tested>>

NextFilter == FilterSchema \/ FilterThrows
SpecFilter == InitFilter /\ [][NextFilter]_vars

-----------------------------------------------------------------------------
(* Claims about the filter for supported entries, checked under SpecFilter *)

\* x has an annotation with version_added.
Annotated(x) ==
  /\ IsObject(x)
  /\ IsArray(Get(x, "annotations"))
  /\ \E i \in 1..Len(Get(x, "annotations").el) :
       Has(Get(x, "annotations").el[i], "version_added")

\* The members of a type: its properties, and the values of the enums of its
\* choices.
MembersOfType(t) ==
  (IF IsObject(Get(t, "properties")) THEN {At(t, <<PKey("properties"), PKey(k)>>) :
                                            k \in KeySet(Get(t, "properties"))} ELSE {})
  \cup
  (IF IsArray(Get(t, "choices"))
   THEN UNION {IF IsObject(Get(Get(t, "choices").el[i], "enums"))
               THEN {Get(Get(Get(t, "choices").el[i], "enums"), k) :
                       k \in KeySet(Get(Get(t, "choices").el[i], "enums"))}
               ELSE {} : i \in 1..Len(Get(t, "choices").el)}
   ELSE {})

\* The top-level entry j is supported: it has a root version_added
\* annotation, or it holds a type that extends WebExtensionManifest or a
\* permission type and has a member annotated with version_added.
Supported(j) ==
  \/ Annotated(j)
  \/ /\ IsArray(Get(j, "types"))
     /\ \E i \in 1..Len(Get(j, "types").el) :
          /\ Get(Get(j, "types").el[i], "$extend") \in
               {Str(n) : n \in PermissionTypes \cup {"WebExtensionManifest"}}
          /\ \E m \in MembersOfType(Get(j, "types").el[i]) : Annotated(m)

\* The entries of the file that are supported, in their order.
SupportedEntries == SelectSeq(schema.json.el, LAMBDA j : Supported(j))

\* C27: the filter step never fails; a Thunderbird-owned file keeps all its
\* entries; a Firefox-owned file keeps exactly its supported entries (by
\* their namespaces and types) and is left out when none is supported.
C27_SupportedEntriesKept ==
  /\ pc # "aborted"
  /\ pc = "filtered" =>
       IF schema.owner = "thunderbird" THEN out.json = schema.json.el
       ELSE /\ Len(out.json) = Len(SupportedEntries)
            /\ \A i \in 1..Len(out.json) :
                 /\ Get(out.json[i], "namespace") = Get(SupportedEntries[i], "namespace")
                 /\ Get(out.json[i], "types") = Get(SupportedEntries[i], "types")

-----------------------------------------------------------------------------
(* processSchema on choices whose members hold choices of their own or
   annotated enum values: the actions of SpecSchema from other inputs. *)

MaxChoices == 2

AnnotatedEnum(val, lim) ==
  Obj(<<KV("enum", Enum(<<val>>)),
        KV("enums", Obj(<<KV(val, Obj(<<KV("note", Str("n"))>>))>>))>> \o lim)

NestedMembers ==
  { Obj(<<KV("choices", Arr(<<Obj(<<KV("type", Str("string"))>>)>>))>>),
    Obj(<<KV("choices", Arr(<<EnumChoice(<<"a">>, Limits(0, 0)),
                              EnumChoice(<<"d">>, Limits(3, 0))>>))>>),
    Obj(<<KV("type", Str("string"))>>),
    Obj(<<KV("type", Str("integer"))>> \o Limits(3, 0)),
    AnnotatedEnum("a", Limits(0, 0)),
    AnnotatedEnum("b", Limits(0, 0)),
    EnumChoice(<<"c">>, Limits(0, 2)) }

NestedInputs ==
  UNION {ChoiceParents(ms) : ms \in SeqsUpTo(NestedMembers, MaxChoices)}

InitChoices ==
  /\ schema = Undefined
  /\ value \in NestedInputs
  /\ mv \in ManifestVersions
  /\ out = Undefined
  /\ out2 = Undefined
  /\ pc = "start"
  /\ schemaInfo = Undefined
  /\ searchPath = Undefined
  /\ remote = Undefined
  /\ revIdx = 0
  /\ tested = <<>>

SpecChoices == InitChoices /\ [][NextSchema]_vars

-----------------------------------------------------------------------------
(* Claims about inlined and merged choices, checked under SpecChoices *)

\* C28: in the tree that processSchema returns no object without $extend has
\* a choices array with exactly one member.
C28_NoSingleChoice ==
  pc = "done" =>
    \A o \in ObjectsOf(out) :
      ~Has(o, "$extend") => ~(IsArray(Get(o, "choices")) /\ Len(Get(o, "choices").el) = 1)

\* processSchema merges several enum-only choices of the input into one.
EnumsMerged ==
  /\ ~Has(value, "$extend")
  /\ Len(Survivors) > 1
  /\ \A i \in 1..Len(Survivors) : IsArray(Get(Survivors[i], "enum"))

\* The values of the choice c for which it holds enums metadata.
AnnotatedValues(c) ==
  IF IsObject(Get(c, "enums"))
  THEN {k \in KeySet(Get(c, "enums")) :
          /\ Str(k) \in {Get(c, "enum").el[i] : i \in 1..Len(Get(c, "enum").el)}
          /\ NumKeys(Get(Get(c, "enums"), k)) > 0}
  ELSE {}

\* C30: the node that several enum-only choices were merged into has the
\* enums metadata of every value of every surviving choice, and in every
\* node of the result each key of enums is one of the node's enum values and
\* has a value that is not empty.
C30_EnumsKept ==
  pc = "done" =>
    /\ EnumsMerged =>
         \A i \in 1..Len(Survivors) : \A k \in AnnotatedValues(Survivors[i]) :
           Get(Get(out, "enums"), k) = Get(Get(Survivors[i], "enums"), k)
    /\ \A o \in ObjectsOf(out) :
         IsObject(Get(o, "enums")) =>
           \A k \in KeySet(Get(o, "enums")) :
             /\ IsArray(Get(o, "enum"))
             /\ Str(k) \in {Get(o, "enum").el[i] : i \in 1..Len(Get(o, "enum").el)}
             /\ NumKeys(Get(Get(o, "enums"), k)) > 0

-----------------------------------------------------------------------------
(* processImports, called as main and testRevision call it:
   processImports(schema), so that `value` is the corpus itself and every node
   the call works on is a node of the corpus.  `delete value.$import` and
   mergeObjects(value, imported) change the importing node where it stands;
   the corpus is a tree (it was parsed from JSON) and the merged content is a
   fresh clone, so the change of the node at address p is the change of the
   corpus at p.  The default branch copies a node into a new object with the
   same keys and the processed values, so the returned tree and the corpus
   after the call are the same JSON value.

   Variables of SpecInPlace: schema is the corpus, value the corpus as it was
   passed in, out the returned tree, tested the import targets that were
   located (their address and the node that was found there), in the order of
   the lookups. *)

RECURSIVE assignAt(_, _, _)
\* The tree v after the node at address p was changed to x.
assignAt(v, p, x) ==
  IF p = <<>> THEN x
  ELSE IF "key" \in DOMAIN p[1]
    THEN Put(v, p[1].key, assignAt(Get(v, p[1].key), Tail(p), x))
  ELSE Arr([v.el EXCEPT ![p[1].idx] = assignAt(@, Tail(p), x)])

NotFound == [found |-> FALSE, path |-> <<>>]
Found(p) == [found |-> TRUE, path |-> p]

FirstFound(hits) ==
  LET idx == {i \in DOMAIN hits : hits[i].found}
  IN IF idx = {} THEN NotFound ELSE hits[Min(idx)]

RECURSIVE addressOfNestedIdOrNamespace(_, _, _)
\* getNestedIdOrNamespace, returning where the node it finds stands: the
\* address p of v extended to the first match.
addressOfNestedIdOrNamespace(v, searchString, p) ==
  IF ~IsObject(v) THEN NotFound
  ELSE IF IsArray(v)
    THEN FirstFound([i \in 1..Len(v.el) |->
           addressOfNestedIdOrNamespace(v.el[i], searchString, p \o <<PIdx(i)>>)])
  ELSE IF Get(v, "namespace") = Str(searchString) THEN Found(p)
  ELSE IF Get(v, "id") = Str(searchString) THEN Found(p)
  ELSE FirstFound([i \in 1..Len(v.kv) |->
         addressOfNestedIdOrNamespace(v.kv[i].v, searchString,
                                      p \o <<PKey(v.kv[i].k)>>)])

\* The members of the node v that stands at address p, as addresses, in the
\* order value.map and Object.keys(value).reduce visit them.
memberAddresses(v, p) ==
  IF IsArray(v)
  THEN [i \in 1..Len(v.el) |-> p \o <<PIdx(i)>>]
  ELSE [i \in 1..Len(v.kv) |-> p \o <<PKey(v.kv[i].k)>>]

RECURSIVE processImportsAt(_, _)
RECURSIVE processImportsEach(_, _, _)
\* The loop of value.map and of the default branch over the members ps.
processImportsEach(st, ps, i) ==
  IF i > Len(ps) THEN st
  ELSE processImportsEach(processImportsAt(st, ps[i]), ps, i + 1)

\* `return mergeObjects(value, imported)`: the clone of the node at hit.path,
\* stripped, is merged into the importing node at p.
mergeImportedInPlace(st, p, hit) ==
  LET imported == At(st.corpus, hit.path)
  IN [corpus |-> assignAt(st.corpus, p,
                          mergeObjects(At(st.corpus, p), stripImported(imported))),
      located |-> Append(st.located, [path |-> hit.path, node |-> imported])]

\* processImports(schema, value) for the value at address p of the corpus
\* st.corpus: the corpus after the call, and the targets located so far.
processImportsAt(st, p) ==
  LET v == At(st.corpus, p)
  IN IF ~IsObject(v) THEN st
     ELSE IF IsArray(v) THEN processImportsEach(st, memberAddresses(v, p), 1)
     ELSE IF Has(v, "$import")
       THEN LET id == importId(Get(v, "$import").s)
                deleted == [st EXCEPT !.corpus = assignAt(@, p, Del(v, "$import"))]
                hit == IF id # "ManifestBase"
                       THEN addressOfNestedIdOrNamespace(deleted.corpus, id, <<>>)
                       ELSE NotFound
            IN IF hit.found
               THEN mergeImportedInPlace(deleted, p, hit)
               ELSE processImportsEach(deleted,
                                       memberAddresses(Del(v, "$import"), p), 1)
     ELSE processImportsEach(st, memberAddresses(v, p), 1)

processImportsInPlace(corpus) ==
  processImportsAt([corpus |-> corpus, located |-> <<>>], <<>>)

-----------------------------------------------------------------------------
(* Corpora whose types import themselves, each other, or a type from a
   property of their own. *)

CycleRefs == {"A", "B", "ns.B", "Missing"}

\* The type with id `id`: with or without an $import, a property that imports,
\* and a lower manifest bound.
CycleTypes(id) ==
  LET base == <<KV("id", Str(id)), KV("type", Str("object"))>>
      imports == {<<>>} \cup {<<KV("$import", Str(r))>> : r \in CycleRefs}
      children == {<<>>} \cup
                  {<<KV("properties", Obj(<<KV("child", ImportOf(r)),
                                            KV(id, TypeOf("string"))>>))>> :
                     r \in {"A", "B"}}
      limits == {<<>>, <<KV("min_manifest_version", Num(3))>>}
  IN {Obj(base \o i \o c \o l) : i \in imports, c \in children, l \in limits}

CycleCorpora ==
  {Arr(<<Obj(<<KV("namespace", Str("ns")), KV("types", Arr(<<a, b>>))>>)>>) :
     a \in CycleTypes("A"), b \in CycleTypes("B")}

InitInPlace ==
  /\ schema \in CycleCorpora
  /\ value = schema
  /\ mv = 3
  /\ out = Undefined
  /\ out2 = Undefined
  /\ pc = "start"
  /\ schemaInfo = Undefined
  /\ searchPath = Undefined
  /\ remote = Undefined
  /\ revIdx = 0
  /\ tested = <<>>

\* schema.json = processImports(schema.json)
RunImportsInPlace ==
  /\ pc = "start"
  /\ LET st == processImportsInPlace(schema)
     IN /\ schema' = st.corpus
        /\ out' = st.corpus
        /\ tested' = st.located
  /\ pc' = "done"
  /\ UNCHANGED <<value, mv, out2, schemaInfo, searchPath, remote, revIdx>>

NextInPlace == RunImportsInPlace
SpecInPlace == InitInPlace /\ [][NextInPlace]_vars

-----------------------------------------------------------------------------
(* Claims about processImports(schema), checked under SpecInPlace *)

\* The type at index i of the corpus v.
TypeAt(v, i) == At(v, <<PIdx(1), PKey("types"), PIdx(i)>>)

\* C29 (as claimed): processImports returns on every corpus, also when a type
\* imports itself or two types import each other, and every import target
\* that was located is, after the call, the node it was when it was located
\* (the order of its keys aside).
C29_TargetsUnchanged ==
  pc = "done" =>
    /\ IsObject(out)
    /\ \A i \in 1..Len(tested) :
         SameJson(At(schema, tested[i].path), tested[i].node)

=============================================================================
